---------------------------- MODULE Spec2Model ----------------------------
(***************************************************************************)
(* Model of the study manager XML reader of code_saturne                   *)
(* (python/code_saturne/studymanager/cs_studymanager_parser.py).           *)
(*                                                                         *)
(* The document is a minidom tree.  Every node is a record                 *)
(*     [tag, attrs, kids, data]                                            *)
(* attrs is a function from the attribute names the element carries to     *)
(* their values, kids the child nodes in document order, data the text of  *)
(* a text or comment node.  A Python string is a sequence of one-character *)
(* strings; tag names, attribute names, dictionary keys and exception      *)
(* names are TLA+ strings.                                                 *)
(*                                                                         *)
(* A Python value that may be of several types is a record with one field  *)
(* named after its type: [str |-> s], [list |-> l], [int |-> i],           *)
(* [node |-> n]; None is [isNone |-> TRUE].                                *)
(*                                                                         *)
(* A call of a method is one action.  It leaves in `ret` what the call     *)
(* did: outcome "ok" (it returned val), "raise" (an exception left the     *)
(* method) or "exit" (sys.exit(1): the process is gone, pc = "exited").    *)
(***************************************************************************)
EXTENDS Integers, Sequences, FiniteSets, TLC

VARIABLES
    file,     \* the XML file handed to the constructor: [syntaxOk, dom]
    disk,     \* the directory tree os.walk reads
    pc,       \* "new" (not constructed), "ready", "exited"
    root,     \* self.root
    repo,     \* self.__repo
    dest,     \* self.__dest
    doc,      \* self.doc
    ret,      \* the last call and what it did
    stdout,   \* what the last call printed
    case,     \* SolidModel: the XML document of the case
    ipp_node, \* SolidModel: self.ipp_node
    meg_to_c, \* QMegEditorView: self.meg_to_c, the interpreter
    dialog,   \* QMegEditorView: the dialog, open or closed with a result
    textEditExpression  \* QMegEditorView: the text of the editor

\* The state of the Parser, of the SolidModel, of the QMegEditorView.
parserVars == <<file, disk, pc, root, repo, dest, doc, stdout>>
solidVars == <<case, ipp_node>>
editorVars == <<meg_to_c, dialog, textEditExpression>>

vars == <<parserVars, ret, solidVars, editorVars>>

---------------------------------------------------------------------------
(* Bounds of the explored documents.                                       *)

MaxStudies == 3
MaxCases == 2
MaxLen == 3
MaxKw == 2
MaxKids == 2

---------------------------------------------------------------------------
(* Python values.                                                          *)

None == [isNone |-> TRUE]
PyStr(s) == [str |-> s]
PyList(l) == [list |-> l]
PyInt(i) == [int |-> i]
PyNode(n) == [node |-> n]

Ok(v) == [outcome |-> "ok", val |-> v]
Raise(e) == [outcome |-> "raise", val |-> e]
Exit(code) == [outcome |-> "exit", val |-> code]

EmptyAttrs == [k \in {} |-> k]

\* The sequences of at most n elements of S.
RECURSIVE SeqsUpTo(_, _)
SeqsUpTo(S, n) ==
    IF n = 0 THEN {<<>>}
    ELSE SeqsUpTo(S, n - 1)
         \cup {Append(s, x) : s \in {t \in SeqsUpTo(S, n - 1) : Len(t) = n - 1}, x \in S}

RECURSIVE InList(_, _)
InList(x, s) ==
    IF s = <<>> THEN FALSE
    ELSE IF Head(s) = x THEN TRUE
    ELSE InList(x, Tail(s))

\* The strings the code compares with or builds from.
On == <<"o", "n">>
Off == <<"o", "f", "f">>
Run == <<"r", "u", "n">>
Space == <<" ">>

---------------------------------------------------------------------------
(* minidom.                                                                *)

Node(tag, attrs, kids) == [tag |-> tag, attrs |-> attrs, kids |-> kids, data |-> <<>>]
Text(data) == [tag |-> "#text", attrs |-> EmptyAttrs, kids |-> <<>>, data |-> data]
Comment == [tag |-> "#comment", attrs |-> EmptyAttrs, kids |-> <<>>, data |-> <<>>]
Document(kids) == [tag |-> "#document", attrs |-> EmptyAttrs, kids |-> kids, data |-> <<>>]

\* n.nodeType == minidom.Node.ELEMENT_NODE
IsElement(n) == n.tag \notin {"#text", "#comment", "#document"}

\* Text and comment nodes have a data attribute, elements have none.
HasData(n) == n.tag \in {"#text", "#comment"}

HasAttr(n, k) == k \in DOMAIN n.attrs

\* Element.getAttribute(k): the value, the empty string when k is absent.
getAttribute(n, k) == IF HasAttr(n, k) THEN n.attrs[k] ELSE <<>>

\* The descendants of the nodes ks, in document order (preorder).
RECURSIVE Descendants(_)
Descendants(ks) ==
    IF ks = <<>> THEN <<>>
    ELSE <<Head(ks)>> \o Descendants(Head(ks).kids) \o Descendants(Tail(ks))

getElementsByTagName(n, name) ==
    SelectSeq(Descendants(n.kids), LAMBDA k : k.tag = name)

\* Node.__bool__ of minidom is True for every node.
NodeTruth(n) == TRUE

---------------------------------------------------------------------------
(* Parser.__init__                                                         *)

\* self.doc.firstChild
firstChild(d) == IF d.kids = <<>> THEN None ELSE PyNode(d.kids[1])

\* The test of line 98 on the node kept as self.root.
IsStudymanager(n) == n.tag = "studymanager"

\* What the constructor does with the file f: the outcome and self.root.
ParserInit(f) ==
    IF ~f.syntaxOk
    THEN [r |-> Exit(1), root |-> None, out |-> <<"Error in the syntax of the xml.">>]
    ELSE LET fc == firstChild(f.dom) IN
         IF fc = None
         THEN [r |-> Raise("AttributeError"), root |-> None, out |-> <<>>]
         ELSE IF ~IsStudymanager(fc.node)
              THEN [r |-> Exit(1), root |-> fc, out |-> <<"not a studymanager XML file.">>]
              ELSE [r |-> Ok(None), root |-> fc, out |-> <<>>]

---------------------------------------------------------------------------
(* Parser.getStudiesLabel                                                  *)

StudyIsOnM(status) == status # Off
StudyIsOn(status) == status = On

LabelIsNewM(label, labels) == TRUE
LabelIsNew(label, labels) == ~InList(label, labels)

RECURSIVE StudiesLabelLoop(_, _)
StudiesLabelLoop(nodes, labels) ==
    IF nodes = <<>> THEN Ok(labels)
    ELSE LET node == Head(nodes) IN
         IF ~HasAttr(node, "label") \/ ~HasAttr(node, "status")
         THEN Raise("KeyError")
         ELSE IF StudyIsOn(node.attrs.status)
              THEN IF LabelIsNew(node.attrs.label, labels)
                   THEN StudiesLabelLoop(Tail(nodes), Append(labels, node.attrs.label))
                   ELSE Exit(1)
              ELSE StudiesLabelLoop(Tail(nodes), labels)

getStudiesLabel(r) == StudiesLabelLoop(getElementsByTagName(r, "study"), <<>>)

---------------------------------------------------------------------------
(* Parser.getStudyNode                                                     *)

\* The loop of lines 272-281; it falls through to `return node` with
\* node = None when no study carries the label.
RECURSIVE StudyNodeLoop(_, _)
StudyNodeLoop(nodes, l) ==
    IF nodes = <<>> THEN Ok(None)
    ELSE LET n == Head(nodes) IN
         IF ~HasAttr(n, "label") THEN Raise("KeyError")
         ELSE IF n.attrs.label = l
              THEN IF ~HasAttr(n, "status") THEN Raise("KeyError")
                   ELSE IF n.attrs.status # On THEN Raise("ValueError")
                   ELSE Ok(PyNode(n))
              ELSE IF ~NodeTruth(n) THEN Raise("ValueError")
                   ELSE StudyNodeLoop(Tail(nodes), l)

getStudyNode(r, l) == StudyNodeLoop(getElementsByTagName(r, "study"), l)

---------------------------------------------------------------------------
(* Strings: re.split(',', text), str.strip(), str.find, slices, str(int),  *)
(* int(str).                                                               *)

IsSpace(c) == c \in {" ", "\t", "\n"}

\* re.split(',', text): the pieces between the commas, scanning left to right.
RECURSIVE SplitLoop(_, _, _)
SplitLoop(text, piece, pieces) ==
    IF text = <<>> THEN Append(pieces, piece)
    ELSE IF Head(text) = ","
         THEN SplitLoop(Tail(text), <<>>, Append(pieces, piece))
         ELSE SplitLoop(Tail(text), Append(piece, Head(text)), pieces)

Split(text) == SplitLoop(text, <<>>, <<>>)

RECURSIVE LStrip(_)
LStrip(s) ==
    IF s = <<>> THEN <<>>
    ELSE IF IsSpace(Head(s)) THEN LStrip(Tail(s))
    ELSE s

RECURSIVE RStrip(_)
RStrip(s) ==
    IF s = <<>> THEN <<>>
    ELSE IF IsSpace(s[Len(s)]) THEN RStrip(SubSeq(s, 1, Len(s) - 1))
    ELSE s

StripM(s) == LStrip(s)
Strip(s) == RStrip(LStrip(s))

RECURSIVE StripAll(_)
StripAll(pieces) ==
    IF pieces = <<>> THEN <<>>
    ELSE <<Strip(Head(pieces))>> \o StripAll(Tail(pieces))

\* [tag.strip() for tag in re.split(',', text)]
SplitTags(text) == StripAll(Split(text))

Digit(d) == CASE d = 0 -> "0" [] d = 1 -> "1" [] d = 2 -> "2" [] d = 3 -> "3"
              [] d = 4 -> "4" [] d = 5 -> "5" [] d = 6 -> "6" [] d = 7 -> "7"
              [] d = 8 -> "8" [] d = 9 -> "9"

\* str(k) of a natural number k.
RECURSIVE IntToStr(_)
IntToStr(k) == IF k < 10 THEN <<Digit(k)>> ELSE Append(IntToStr(k \div 10), Digit(k % 10))

Digits == {"0", "1", "2", "3", "4", "5", "6", "7", "8", "9"}

DigitValue(c) == CHOOSE d \in 0..9 : Digit(d) = c

RECURSIVE DigitsValue(_, _)
DigitsValue(s, acc) ==
    IF s = <<>> THEN acc ELSE DigitsValue(Tail(s), 10 * acc + DigitValue(Head(s)))

\* int(s): whitespace around, an optional sign, then decimal digits; a
\* ValueError otherwise.
StrToInt(s) ==
    LET t == Strip(s)
        signed == t # <<>> /\ Head(t) \in {"+", "-"}
        body == IF signed THEN Tail(t) ELSE t
    IN  IF body = <<>> \/ \E i \in 1..Len(body) : body[i] \notin Digits
        THEN Raise("ValueError")
        ELSE Ok(IF signed /\ Head(t) = "-" THEN 0 - DigitsValue(body, 0)
                ELSE DigitsValue(body, 0))

\* s.find(c): the 0-based index of the first c, -1 when there is none.
Find(s, c) ==
    IF \E i \in 1..Len(s) : s[i] = c
    THEN (CHOOSE i \in 1..Len(s) : s[i] = c /\ \A j \in 1..(i - 1) : s[j] # c) - 1
    ELSE -1

\* s[:ind] for ind >= -1.
SliceTo(s, ind) ==
    IF ind >= 0 THEN SubSeq(s, 1, IF ind < Len(s) THEN ind ELSE Len(s))
    ELSE SubSeq(s, 1, Len(s) - 1)

\* s[-2:]
LastTwo(s) == IF Len(s) <= 2 THEN s ELSE SubSeq(s, Len(s) - 1, Len(s))

---------------------------------------------------------------------------
(* Parser.getStudyTags, Parser.getStudyKeywords                            *)

\* The message of line 300 formats the name l, which the method does not
\* define: the raise statement fails with a NameError.
getStudyTags(studyNode) ==
    IF ~HasAttr(studyNode, "status") THEN Raise("KeyError")
    ELSE IF studyNode.attrs.status # On THEN Raise("NameError")
    ELSE IF HasAttr(studyNode, "tags")
         THEN Ok(SplitTags(studyNode.attrs.tags))
         ELSE Ok(<<>>)

RECURSIVE StudyKeywordsLoop(_, _)
StudyKeywordsLoop(nodes, keywords) ==
    IF nodes = <<>> THEN Ok(keywords)
    ELSE LET node_kw == Head(nodes) IN
         IF node_kw.kids # <<>> /\ HasData(node_kw.kids[1])
         THEN StudyKeywordsLoop(Tail(nodes), keywords \o SplitTags(node_kw.kids[1].data))
         ELSE StudyKeywordsLoop(Tail(nodes), keywords)

getStudyKeywords(studyNode) ==
    StudyKeywordsLoop(getElementsByTagName(studyNode, "study_keywords"), <<>>)

---------------------------------------------------------------------------
(* Parser.getStatusOnCasesLabels                                           *)

\* The optional parameter attr is None or [name |-> k], k the name of an
\* attribute.  `if attr`: it is given and is not the empty string.
AttrGiven(attr) == attr # None /\ attr.name # ""

\* Lines 353-359.  With attr given, the label is appended and popped again
\* unless node.attributes[attr] is 'on'; that lookup fails with a KeyError
\* on a case without the attribute.
RECURSIVE CasesLabelsLoop(_, _, _)
CasesLabelsLoop(nodes, attr, labels) ==
    IF nodes = <<>> THEN Ok(labels)
    ELSE LET node == Head(nodes) IN
         IF ~HasAttr(node, "status") THEN Raise("KeyError")
         ELSE IF node.attrs.status # On
         THEN CasesLabelsLoop(Tail(nodes), attr, labels)
         ELSE IF ~HasAttr(node, "label") THEN Raise("KeyError")
         ELSE IF ~AttrGiven(attr)
         THEN CasesLabelsLoop(Tail(nodes), attr, Append(labels, node.attrs.label))
         ELSE IF ~HasAttr(node, attr.name) THEN Raise("KeyError")
         ELSE IF node.attrs[attr.name] # On
         THEN CasesLabelsLoop(Tail(nodes), attr, labels)
         ELSE CasesLabelsLoop(Tail(nodes), attr, Append(labels, node.attrs.label))

getStatusOnCasesLabels(r, l, attr) ==
    LET sn == getStudyNode(r, l) IN
    IF sn.outcome # "ok" THEN sn
    ELSE IF sn.val = None THEN Raise("AttributeError")
    ELSE CasesLabelsLoop(getElementsByTagName(sn.val.node, "case"), attr, <<>>)

---------------------------------------------------------------------------
(* Parser.getDepends                                                       *)

\* The loop keeps the args of the last depends element; with no depends
\* element `return args` fails (args is unbound).
RECURSIVE DependsLoop(_, _)
DependsLoop(nodes, args) ==
    IF nodes = <<>>
    THEN IF args = None THEN Raise("UnboundLocalError") ELSE Ok(args.str)
    ELSE IF ~HasAttr(Head(nodes), "args") THEN Raise("KeyError")
         ELSE DependsLoop(Tail(nodes), PyStr(Head(nodes).attrs.args))

getDepends(caseNode) == DependsLoop(getElementsByTagName(caseNode, "depends"), None)

---------------------------------------------------------------------------
(* Parser.getStatusOnCasesKeywords                                         *)

setup_filter_keys == {"notebook", "parametric", "kw_args"}

\* The child tags of line 523, whose text is never copied into the record.
StructuralTags == {"compare", "prepro", "script", "data", "depends"}

CaseIsOnM(status) == TRUE
CaseIsOn(status) == status = On

\* Lines 473-476: the number of enabled cases seen so far, per label.
CountCase(list_case, label) ==
    IF label \in DOMAIN list_case
    THEN [list_case EXCEPT ![label] = @ + 1]
    ELSE (label :> 1) @@ list_case

\* Lines 478-484.
RunId(node, count) ==
    IF HasAttr(node, "run_id") /\ node.attrs.run_id # <<>>
    THEN node.attrs.run_id
    ELSE Run \o IntToStr(count)

\* Lines 465-470: node.attributes["compute"] is looked up first; when it is
\* absent the KeyError ends the test, when it is present the Attr is true.
Deprecated(node, deprecated_option) ==
    IF HasAttr(node, "compute") THEN TRUE ELSE deprecated_option

\* Lines 492-500: the tags of the case, then those of the study.
CaseTags(node, studyTags) ==
    LET own == IF HasAttr(node, "tags") THEN SplitTags(node.attrs.tags) ELSE <<>>
        all == own \o studyTags
    IN  IF Len(all) = 0 THEN None ELSE PyList(all)

\* Lines 509-515: int(tmp[:ind]) * 60 + int(tmp[-2:]), None when the
\* attribute is absent or one of the conversions fails.
ExpectedTime(node) ==
    IF ~HasAttr(node, "expected_time") THEN None
    ELSE LET tmp == node.attrs.expected_time
             ind == Find(tmp, ":")
             hh  == StrToInt(SliceTo(tmp, ind))
             mm  == StrToInt(LastTwo(tmp))
         IN  IF hh.outcome = "ok" /\ mm.outcome = "ok"
             THEN PyInt(hh.val * 60 + mm.val)
             ELSE None

\* `not v` for a value of the dictionary.
Falsy(v) == v = None \/ v = PyStr(<<>>)

\* Lines 520-531: the children of the case, in document order.
RECURSIVE ChildLoop(_, _)
ChildLoop(kids, d) ==
    IF kids = <<>> THEN Ok(d)
    ELSE LET n == Head(kids) IN
         IF ~IsElement(n) THEN ChildLoop(Tail(kids), d)
         ELSE IF n.kids # <<>>
         THEN IF n.tag \in StructuralTags THEN ChildLoop(Tail(kids), d)
              ELSE IF ~HasData(n.kids[1]) THEN Raise("AttributeError")
              ELSE ChildLoop(Tail(kids), (n.tag :> PyStr(n.kids[1].data)) @@ d)
         ELSE IF n.tag \notin setup_filter_keys THEN ChildLoop(Tail(kids), d)
              ELSE LET args == getAttribute(n, "args") IN
                   IF Falsy(d[n.tag])
                   THEN ChildLoop(Tail(kids), (n.tag :> PyStr(args)) @@ d)
                   ELSE ChildLoop(Tail(kids),
                                  (n.tag :> PyStr(d[n.tag].str \o Space \o args)) @@ d)

\* Lines 460-518: the dictionary d of one enabled case before its children
\* are read.
CaseRecord(node, list_case, studyTags) ==
    [node          |-> PyNode(node),
     label         |-> PyStr(node.attrs.label),
     run_id        |-> PyStr(RunId(node, list_case[node.attrs.label])),
     n_procs       |-> IF HasAttr(node, "n_procs") THEN PyStr(node.attrs.n_procs) ELSE None,
     tags          |-> CaseTags(node, studyTags),
     depends       |-> IF getDepends(node).outcome = "ok"
                       THEN PyStr(getDepends(node).val) ELSE None,
     expected_time |-> ExpectedTime(node),
     notebook      |-> None,
     parametric    |-> None,
     kw_args       |-> None]

RECURSIVE CasesKeywordsLoop(_, _, _, _, _, _)
CasesKeywordsLoop(nodes, r, l, data, list_case, deprecated_option) ==
    IF nodes = <<>>
    THEN [r |-> Ok(data),
          out |-> IF deprecated_option THEN <<"WARNING: deprecated options">> ELSE <<>>]
    ELSE LET node == Head(nodes) IN
         IF ~HasAttr(node, "status") THEN [r |-> Raise("KeyError"), out |-> <<>>]
         ELSE IF ~CaseIsOn(node.attrs.status)
         THEN CasesKeywordsLoop(Tail(nodes), r, l, data, list_case, deprecated_option)
         ELSE IF ~HasAttr(node, "label") THEN [r |-> Raise("KeyError"), out |-> <<>>]
         ELSE LET sn == getStudyNode(r, l)
                  st == IF sn.outcome # "ok" THEN sn
                        ELSE IF sn.val = None THEN Raise("AttributeError")
                        ELSE getStudyTags(sn.val.node)
                  lc == CountCase(list_case, node.attrs.label)
              IN  IF st.outcome # "ok" THEN [r |-> st, out |-> <<>>]
                  ELSE LET d == ChildLoop(node.kids, CaseRecord(node, lc, st.val)) IN
                       IF d.outcome # "ok" THEN [r |-> d, out |-> <<>>]
                       ELSE CasesKeywordsLoop(Tail(nodes), r, l, Append(data, d.val),
                                              lc, Deprecated(node, deprecated_option))

getStatusOnCasesKeywords(r, l) ==
    LET sn == getStudyNode(r, l) IN
    IF sn.outcome # "ok" THEN [r |-> sn, out |-> <<>>]
    ELSE IF sn.val = None THEN [r |-> Raise("AttributeError"), out |-> <<>>]
    ELSE CasesKeywordsLoop(getElementsByTagName(sn.val.node, "case"), r, l,
                           <<>>, EmptyAttrs, FALSE)

---------------------------------------------------------------------------
(* Parser.getCompare, getPrepro, getScript, getPostPro                     *)

\* str(node.attributes[k].value) inside try/except: None when k is absent.
AttrOrNone(node, k) == IF HasAttr(node, k) THEN PyStr(node.attrs[k]) ELSE None

\* The same with the default "".
AttrOrEmpty(node, k) == IF HasAttr(node, k) THEN node.attrs[k] ELSE <<>>

\* Lines 561-578: one compare element.  The status is optional (True when
\* absent), repo and dest are read without a guard.
CompareStep(acc, node) ==
    IF ~HasAttr(node, "repo") \/ ~HasAttr(node, "dest") THEN Raise("KeyError")
    ELSE Ok([compare   |-> Append(acc.compare,
                                  IF HasAttr(node, "status")
                                  THEN node.attrs.status = On ELSE TRUE),
             nodes     |-> Append(acc.nodes, node),
             repo      |-> Append(acc.repo, node.attrs.repo),
             dest      |-> Append(acc.dest, node.attrs.dest),
             threshold |-> Append(acc.threshold, AttrOrNone(node, "threshold")),
             args      |-> Append(acc.args, AttrOrNone(node, "args"))])

RECURSIVE CompareLoop(_, _)
CompareLoop(nodes, acc) ==
    IF nodes = <<>> THEN Ok(acc)
    ELSE LET step == CompareStep(acc, Head(nodes)) IN
         IF step.outcome # "ok" THEN step ELSE CompareLoop(Tail(nodes), step.val)

getCompare(caseNode) ==
    CompareLoop(getElementsByTagName(caseNode, "compare"),
                [compare |-> <<>>, nodes |-> <<>>, repo |-> <<>>, dest |-> <<>>,
                 threshold |-> <<>>, args |-> <<>>])

\* Lines 597-608: one prepro element.
PreproStep(acc, node) ==
    IF ~HasAttr(node, "status") \/ ~HasAttr(node, "label") THEN Raise("KeyError")
    ELSE Ok([prepro |-> Append(acc.prepro, node.attrs.status = On),
             label  |-> Append(acc.label, node.attrs.label),
             nodes  |-> Append(acc.nodes, node),
             args   |-> Append(acc.args, AttrOrEmpty(node, "args"))])

RECURSIVE PreproLoop(_, _)
PreproLoop(nodes, acc) ==
    IF nodes = <<>> THEN Ok(acc)
    ELSE LET step == PreproStep(acc, Head(nodes)) IN
         IF step.outcome # "ok" THEN step ELSE PreproLoop(Tail(nodes), step.val)

getPrepro(caseNode) ==
    PreproLoop(getElementsByTagName(caseNode, "prepro"),
               [prepro |-> <<>>, label |-> <<>>, nodes |-> <<>>, args |-> <<>>])

\* Lines 627-646: one script element.
ScriptStepM(acc, node) ==
    IF ~HasAttr(node, "status") \/ ~HasAttr(node, "label") THEN Raise("KeyError")
    ELSE Ok([script |-> Append(acc.script, node.attrs.status = On),
             label  |-> Append(acc.label, node.attrs.label),
             nodes  |-> Append(acc.nodes, node),
             args   |-> Append(acc.args, AttrOrEmpty(node, "args")),
             repo   |-> IF HasAttr(node, "repo")
                        THEN Append(acc.repo, PyStr(node.attrs.repo)) ELSE acc.repo,
             dest   |-> Append(acc.dest, AttrOrNone(node, "dest"))])
ScriptStep(acc, node) ==
    IF ~HasAttr(node, "status") \/ ~HasAttr(node, "label") THEN Raise("KeyError")
    ELSE Ok([script |-> Append(acc.script, node.attrs.status = On),
             label  |-> Append(acc.label, node.attrs.label),
             nodes  |-> Append(acc.nodes, node),
             args   |-> Append(acc.args, AttrOrEmpty(node, "args")),
             repo   |-> Append(acc.repo, AttrOrNone(node, "repo")),
             dest   |-> Append(acc.dest, AttrOrNone(node, "dest"))])

RECURSIVE ScriptLoop(_, _)
ScriptLoop(nodes, acc) ==
    IF nodes = <<>> THEN Ok(acc)
    ELSE LET step == ScriptStep(acc, Head(nodes)) IN
         IF step.outcome # "ok" THEN step ELSE ScriptLoop(Tail(nodes), step.val)

getScript(caseNode) ==
    ScriptLoop(getElementsByTagName(caseNode, "script"),
               [script |-> <<>>, label |-> <<>>, nodes |-> <<>>, args |-> <<>>,
                repo |-> <<>>, dest |-> <<>>])

\* Lines 799-809: one postpro element.
PostProStep(acc, node) ==
    IF ~HasAttr(node, "status") \/ ~HasAttr(node, "label") THEN Raise("KeyError")
    ELSE Ok([scripts |-> Append(acc.scripts, node.attrs.status = On),
             labels  |-> Append(acc.labels, node.attrs.label),
             nodes   |-> Append(acc.nodes, node),
             args    |-> Append(acc.args, AttrOrEmpty(node, "args"))])

RECURSIVE PostProLoop(_, _)
PostProLoop(nodes, acc) ==
    IF nodes = <<>> THEN Ok(acc)
    ELSE LET step == PostProStep(acc, Head(nodes)) IN
         IF step.outcome # "ok" THEN step ELSE PostProLoop(Tail(nodes), step.val)

getPostPro(r, l) ==
    LET sn == getStudyNode(r, l) IN
    IF sn.outcome # "ok" THEN sn
    ELSE IF sn.val = None THEN Raise("AttributeError")
    ELSE PostProLoop(getElementsByTagName(sn.val.node, "postpro"),
                     [scripts |-> <<>>, labels |-> <<>>, nodes |-> <<>>, args |-> <<>>])

---------------------------------------------------------------------------
(* Parser.getAttribute, Parser.getAttributeTuple                           *)

\* Lines 850-860. The name getAttribute is taken by Element.getAttribute
\* above. The default is tested with `is None`: an empty default is
\* returned like any other.
Parser_getAttributeM(node, k, default) ==
    IF HasAttr(node, k) THEN Ok(PyStr(node.attrs[k]))
    ELSE IF default = None \/ default = PyStr(<<>>) THEN Raise("ValueError")
    ELSE Ok(default)
Parser_getAttribute(node, k, default) ==
    IF HasAttr(node, k) THEN Ok(PyStr(node.attrs[k]))
    ELSE IF default = None THEN Raise("ValueError")
    ELSE Ok(default)

\* float(s) for a string of digits, signs, blanks and punctuation: like
\* int(s), blanks around, an optional sign, then decimal digits; the value
\* is the whole number read. Strings with '.', 'e', '_' or letters are
\* not explored.
StrToFloat(s) == StrToInt(s)

\* n[1:-1]
Inner(n) == IF Len(n) < 2 THEN <<>> ELSE SubSeq(n, 2, Len(n) - 1)

\* tuple(float(s) for s in pieces): the first piece float() refuses ends
\* the conversion.
RECURSIVE FloatAll(_, _)
FloatAll(pieces, acc) ==
    IF pieces = <<>> THEN Ok(acc)
    ELSE LET f == StrToFloat(Head(pieces)) IN
         IF f.outcome # "ok" THEN f ELSE FloatAll(Tail(pieces), Append(acc, f.val))

PyTuple(t) == [tuple |-> t]

\* Lines 864-875.
getAttributeTuple(node, k, default) ==
    IF HasAttr(node, k)
    THEN LET n == node.attrs[k]
             r == FloatAll(Split(Inner(n)), <<>>)
         IN  IF r.outcome = "ok" THEN Ok(PyTuple(r.val)) ELSE r
    ELSE IF default = None THEN Raise("ValueError")
    ELSE Ok(default)

---------------------------------------------------------------------------
(* os.path.join, os.walk                                                   *)

Slash == <<"/">>
POST == <<"P", "O", "S", "T">>

\* os.path.join(a, b): an absolute b replaces a; otherwise b follows a and
\* one separator, which is left out after an empty a or a trailing one.
Join(a, b) ==
    IF b # <<>> /\ Head(b) = "/" THEN b
    ELSE IF a = <<>> \/ a[Len(a)] = "/" THEN a \o b
    ELSE a \o Slash \o b

\* A directory: its name, its sub-directories in the order the system
\* lists them, the names of its files.
Dir(name, dirs, files) == [name |-> name, dirs |-> dirs, files |-> files]

\* The root directory with nothing in it.
EmptyDisk == Dir(<<>>, <<>>, {})

\* The names between the separators of a path; empty names and '.' do not
\* count when the system resolves the path.
RECURSIVE ComponentsLoop(_, _, _)
ComponentsLoop(path, name, names) ==
    LET keep(n) == IF n = <<>> \/ n = <<".">> THEN names ELSE Append(names, n) IN
    IF path = <<>> THEN keep(name)
    ELSE IF Head(path) = "/" THEN ComponentsLoop(Tail(path), <<>>, keep(name))
    ELSE ComponentsLoop(Tail(path), Append(name, Head(path)), names)

Components(path) == ComponentsLoop(path, <<>>, <<>>)

\* The directory a path names, from the root (the working directory of the
\* process is the root), None when there is none.
RECURSIVE Lookup(_, _)
Lookup(d, names) ==
    IF names = <<>> THEN [dir |-> d]
    ELSE LET idx == {i \in 1..Len(d.dirs) : d.dirs[i].name = Head(names)} IN
         IF idx = {} THEN None
         ELSE Lookup(d.dirs[CHOOSE i \in idx : \A j \in idx : i <= j], Tail(names))

\* os.walk(top), top-down: (root, dirs, files) of top, then of each
\* sub-directory in listing order; nothing when top is not a directory.
RECURSIVE WalkDir(_, _)
RECURSIVE WalkKids(_, _)
WalkDir(path, d) ==
    <<[root |-> path, dirs |-> [i \in 1..Len(d.dirs) |-> d.dirs[i].name], files |-> d.files]>>
    \o WalkKids(path, d.dirs)
WalkKids(path, ds) ==
    IF ds = <<>> THEN <<>>
    ELSE WalkDir(Join(path, Head(ds).name), Head(ds)) \o WalkKids(path, Tail(ds))

Walk(tree, top) ==
    LET d == Lookup(tree, Components(top)) IN
    IF d = None THEN <<>> ELSE WalkDir(top, d.dir)

---------------------------------------------------------------------------
(* Parser.getDataFromNode, getRepository, getDestination, getMeasurement   *)

\* Lines 109-134: the data of the first child of the only childName element
\* under father; exit with a message when there is none or several.
getDataFromNode(father, childName) ==
    LET l == getElementsByTagName(father, childName) IN
    IF Len(l) = 1
    THEN LET current == l[1] IN
         IF current.kids # <<>> /\ NodeTruth(current.kids[1])
         THEN IF ~HasData(current.kids[1])
              THEN [r |-> Raise("AttributeError"), out |-> <<>>]
              ELSE [r |-> Ok(PyStr(current.kids[1].data)), out |-> <<>>]
         ELSE [r |-> Ok(None), out |-> <<>>]
    ELSE IF Len(l) = 0
    THEN [r |-> Exit(1), out |-> <<"Error: in getDataFromNode no markup found.", childName>>]
    ELSE [r |-> Exit(1), out |-> <<"Error: in getDataFromNode several markups found.", childName>>]

\* Lines 188-196 and 211-219: the value kept in self.__repo (self.__dest)
\* when it is not None, else the data read from the document, which is
\* kept. cached is the attribute before the call, cache the attribute
\* after it.
CachedData(r, cached, childName) ==
    IF cached # None THEN [r |-> Ok(cached), cache |-> cached, out |-> <<>>]
    ELSE LET d == getDataFromNode(r, childName) IN
         IF d.r.outcome = "ok" THEN [r |-> d.r, cache |-> d.r.val, out |-> d.out]
         ELSE [r |-> d.r, cache |-> cached, out |-> d.out]

getRepository(r, cached) == CachedData(r, cached, "repository")
getDestination(r, cached) == CachedData(r, cached, "destination")

\* Lines 764-775: the directory of the first (root, dirs, fs) of the walk
\* whose fs holds fileName, filePath when there is none.
RECURSIVE WalkLoopM(_, _, _)
WalkLoopM(walk, fileName, filePath) ==
    IF walk = <<>> THEN filePath
    ELSE IF fileName \in Head(walk).files
         THEN WalkLoopM(Tail(walk), fileName, Head(walk).root)
         ELSE WalkLoopM(Tail(walk), fileName, filePath)
RECURSIVE WalkLoop(_, _, _)
WalkLoop(walk, fileName, filePath) ==
    IF walk = <<>> THEN filePath
    ELSE IF fileName \in Head(walk).files THEN Head(walk).root
    ELSE WalkLoop(Tail(walk), fileName, filePath)

\* Lines 759-773: one measurement element. acc holds nodes, files and the
\* cache self.__repo; os.path.join fails with a TypeError on None.
MeasurementStep(acc, node, r, l, tree) ==
    LET nodes == Append(acc.nodes, getElementsByTagName(node, "plot")) IN
    IF ~HasAttr(node, "file") \/ ~HasAttr(node, "path")
    THEN [r |-> Raise("KeyError"), cache |-> acc.cache, out |-> <<>>]
    ELSE LET fileName == node.attrs.file
             filePath == node.attrs.path
             g == getRepository(r, acc.cache)
         IN  IF g.r.outcome # "ok" THEN g
             ELSE IF g.r.val = None
             THEN [r |-> Raise("TypeError"), cache |-> g.cache, out |-> <<>>]
             ELSE LET top == IF filePath = <<>>
                             THEN Join(g.r.val.str, l)
                             ELSE Join(Join(Join(g.r.val.str, l), POST), filePath)
                      found == WalkLoop(Walk(tree, top), fileName, filePath)
                  IN  [r |-> Ok([nodes |-> nodes,
                                 files |-> Append(acc.files, Join(found, fileName)),
                                 cache |-> g.cache]),
                       cache |-> g.cache, out |-> <<>>]

RECURSIVE MeasurementLoop(_, _, _, _, _)
MeasurementLoop(ms, acc, r, l, tree) ==
    IF ms = <<>> THEN [r |-> Ok(acc), cache |-> acc.cache, out |-> <<>>]
    ELSE LET step == MeasurementStep(acc, Head(ms), r, l, tree) IN
         IF step.r.outcome # "ok" THEN step
         ELSE MeasurementLoop(Tail(ms), step.r.val, r, l, tree)

\* Lines 746-775; getStudyNode(l) may be None, which has no
\* getElementsByTagName.
getMeasurement(r, l, cached, tree) ==
    LET sn == getStudyNode(r, l) IN
    IF sn.outcome # "ok" THEN [r |-> sn, cache |-> cached, out |-> <<>>]
    ELSE IF sn.val = None THEN [r |-> Raise("AttributeError"), cache |-> cached, out |-> <<>>]
    ELSE MeasurementLoop(getElementsByTagName(sn.val.node, "measurement"),
                         [nodes |-> <<>>, files |-> <<>>, cache |-> cached], r, l, tree)

---------------------------------------------------------------------------
(* Parser.write: Document.toxml, and the parse of the written text.        *)

\* A piece of markup of the written text: the declaration, a start tag, an
\* end tag, an empty-element tag, character data, a comment. attrs and data
\* are the characters as written.
Markup(kind, tag, attrs, data) == [kind |-> kind, tag |-> tag, attrs |-> attrs, data |-> data]

\* minidom._write_data: & < " > become entity references; every other
\* character, a tab or a newline too, is written as it is.
RECURSIVE WriteData(_)
WriteData(data) ==
    IF data = <<>> THEN <<>>
    ELSE (CASE Head(data) = "&" -> <<"&", "a", "m", "p", ";">>
            [] Head(data) = "<" -> <<"&", "l", "t", ";">>
            [] Head(data) = "\"" -> <<"&", "q", "u", "o", "t", ";">>
            [] Head(data) = ">" -> <<"&", "g", "t", ";">>
            [] OTHER -> <<Head(data)>>)
         \o WriteData(Tail(data))

WriteAttrs(attrs) == [k \in DOMAIN attrs |-> WriteData(attrs[k])]

\* Node.writexml of elements, text and comments; an element without
\* children is written as an empty-element tag, an empty text as nothing.
RECURSIVE WriteNodes(_)
WriteNodes(ks) ==
    IF ks = <<>> THEN <<>>
    ELSE LET n == Head(ks) IN
         (IF n.tag = "#text"
          THEN IF n.data = <<>> THEN <<>> ELSE <<Markup("chars", "", EmptyAttrs, WriteData(n.data))>>
          ELSE IF n.tag = "#comment" THEN <<Markup("comment", "", EmptyAttrs, n.data)>>
          ELSE IF n.kids = <<>> THEN <<Markup("empty", n.tag, WriteAttrs(n.attrs), <<>>)>>
          ELSE <<Markup("start", n.tag, WriteAttrs(n.attrs), <<>>)>>
               \o WriteNodes(n.kids)
               \o <<Markup("end", n.tag, EmptyAttrs, <<>>)>>)
         \o WriteNodes(Tail(ks))

\* Document.toxml(): the XML declaration, then the children.
toxml(d) == <<Markup("decl", "", EmptyAttrs, <<>>)>> \o WriteNodes(d.kids)

\* Line 105.
write(d) == toxml(d)

\* The character an entity reference stands for.
Entity(name) ==
    CASE name = <<"a", "m", "p">> -> "&"
      [] name = <<"l", "t">> -> "<"
      [] name = <<"q", "u", "o", "t">> -> "\""
      [] name = <<"g", "t">> -> ">"

\* The characters the parser hands over for written ones: references are
\* replaced; in an attribute value (attr) a literal tab or newline is
\* normalised to a space.
RECURSIVE ReadData(_, _)
ReadData(w, attr) ==
    IF w = <<>> THEN <<>>
    ELSE IF Head(w) = "&"
    THEN LET end == Find(w, ";") IN
         <<Entity(SubSeq(w, 2, end))>> \o ReadData(SubSeq(w, end + 2, Len(w)), attr)
    ELSE IF attr /\ IsSpace(Head(w)) THEN <<" ">> \o ReadData(Tail(w), attr)
    ELSE <<Head(w)>> \o ReadData(Tail(w), attr)

ReadAttrs(attrs) == [k \in DOMAIN attrs |-> ReadData(attrs[k], TRUE)]

\* The nodes built from the markup up to the end tag of the enclosing
\* element, and the markup left; character data next to character data
\* makes one text node.
RECURSIVE ParseNodes(_)
ParseNodes(ms) ==
    IF ms = <<>> \/ Head(ms).kind = "end" THEN [kids |-> <<>>, rest |-> ms]
    ELSE LET m == Head(ms) IN
         IF m.kind = "start"
         THEN LET inner == ParseNodes(Tail(ms))
                  after == ParseNodes(Tail(inner.rest))
              IN  [kids |-> <<Node(m.tag, ReadAttrs(m.attrs), inner.kids)>> \o after.kids,
                   rest |-> after.rest]
         ELSE LET after == ParseNodes(Tail(ms)) IN
              IF m.kind = "empty"
              THEN [kids |-> <<Node(m.tag, ReadAttrs(m.attrs), <<>>)>> \o after.kids,
                    rest |-> after.rest]
              ELSE IF m.kind = "comment"
              THEN [kids |-> <<Comment>> \o after.kids, rest |-> after.rest]
              ELSE IF m.kind = "decl" THEN after
              ELSE IF after.kids # <<>> /\ Head(after.kids).tag = "#text"
              THEN [kids |-> <<Text(ReadData(m.data, FALSE) \o Head(after.kids).data)>>
                             \o Tail(after.kids),
                    rest |-> after.rest]
              ELSE [kids |-> <<Text(ReadData(m.data, FALSE))>> \o after.kids,
                    rest |-> after.rest]

\* Lines 85-96 on a file holding the written text: the text of toxml() is
\* well formed, minidom.parse builds the document.
ParseText(text) == [syntaxOk |-> TRUE, dom |-> Document(ParseNodes(text).kids)]

---------------------------------------------------------------------------
(* The XML engine SolidModel calls (XMLengine: xmlGetNode, xmlInitNode,    *)
(* xmlInitChildNode, xmlSetAttribute, xmlSetData, xmlGetString,            *)
(* xmlGetDouble).  A node is named by its path from the root of the case,  *)
(* the positions of the children to follow; new children go last, so a     *)
(* path keeps naming its node.  The values SolidModel stores are never     *)
(* taken apart: an attribute value is a TLA+ string here, and a text is    *)
(* the one-element sequence of the value written.                          *)

Ref(path) == [path |-> path]

RECURSIVE NodeAt(_, _)
NodeAt(n, path) == IF path = <<>> THEN n ELSE NodeAt(n.kids[Head(path)], Tail(path))

RECURSIVE ReplaceAt(_, _, _)
ReplaceAt(n, path, new) ==
    IF path = <<>> THEN new
    ELSE [n EXCEPT !.kids[Head(path)] = ReplaceAt(n.kids[Head(path)], Tail(path), new)]

\* An element named tag that carries the attributes attrs.
Matches(k, tag, attrs) ==
    /\ k.tag = tag
    /\ \A a \in DOMAIN attrs : a \in DOMAIN k.attrs /\ k.attrs[a] = attrs[a]

\* The path, below n, of the first descendant in document order that
\* matches, None when there is none.
RECURSIVE FirstMatch(_, _, _, _)
FirstMatch(n, i, tag, attrs) ==
    IF i > Len(n.kids) THEN None
    ELSE IF Matches(n.kids[i], tag, attrs) THEN Ref(<<i>>)
    ELSE LET below == FirstMatch(n.kids[i], 1, tag, attrs) IN
         IF below # None THEN Ref(<<i>> \o below.path)
         ELSE FirstMatch(n, i + 1, tag, attrs)

\* node.xmlGetNode(tag, **attrs)
xmlGetNode(c, node, tag, attrs) ==
    LET m == FirstMatch(NodeAt(c, node.path), 1, tag, attrs) IN
    IF m = None THEN None ELSE Ref(node.path \o m.path)

\* The first child of the node that matches.
xmlGetChildNode(c, node, tag, attrs) ==
    LET n == NodeAt(c, node.path)
        idx == {i \in 1..Len(n.kids) : Matches(n.kids[i], tag, attrs)}
    IN  IF idx = {} THEN None
        ELSE Ref(Append(node.path, CHOOSE i \in idx : \A j \in idx : i <= j))

\* node.xmlAddChild(tag, **attrs): a new last child.
xmlAddChild(c, node, tag, attrs) ==
    LET n == NodeAt(c, node.path) IN
    [case |-> ReplaceAt(c, node.path, [n EXCEPT !.kids = Append(@, Node(tag, attrs, <<>>))]),
     node |-> Ref(Append(node.path, Len(n.kids) + 1))]

\* node.xmlInitNode(tag, **attrs): the node xmlGetNode finds, a new child
\* when it finds none.
xmlInitNode(c, node, tag, attrs) ==
    LET found == xmlGetNode(c, node, tag, attrs) IN
    IF found # None THEN [case |-> c, node |-> found]
    ELSE xmlAddChild(c, node, tag, attrs)

\* node.xmlInitChildNode(tag, **attrs): the same among the children only.
xmlInitChildNode(c, node, tag, attrs) ==
    LET found == xmlGetChildNode(c, node, tag, attrs) IN
    IF found # None THEN [case |-> c, node |-> found]
    ELSE xmlAddChild(c, node, tag, attrs)

\* node.xmlSetAttribute(**attrs)
xmlSetAttribute(c, node, attrs) ==
    LET n == NodeAt(c, node.path) IN
    ReplaceAt(c, node.path,
              [n EXCEPT !.attrs = [a \in DOMAIN attrs \cup DOMAIN n.attrs |->
                                      IF a \in DOMAIN attrs THEN attrs[a] ELSE n.attrs[a]]])

\* node.xmlSetData(tag, value, **attrs): the text of the tag element under
\* the node, made when there is none, becomes value.
xmlSetData(c, node, tag, value, attrs) ==
    LET made == xmlInitNode(c, node, tag, attrs)
        n == NodeAt(made.case, made.node.path)
    IN  ReplaceAt(made.case, made.node.path, [n EXCEPT !.kids = <<Text(<<value>>)>>])

\* The text of an element, None when it has none.
xmlGetTextNode(n) ==
    IF n.kids # <<>> /\ n.kids[1].tag = "#text" THEN [text |-> n.kids[1].data[1]] ELSE None

\* node.xmlGetString(tag): the text of the tag element, the empty string
\* when there is no such element.
xmlGetString(c, node, tag) ==
    LET found == xmlGetNode(c, node, tag, EmptyAttrs) IN
    IF found = None THEN [text |-> ""]
    ELSE xmlGetTextNode(NodeAt(c, found.path))

\* node.xmlGetDouble(tag, **attrs): the number written in the tag element,
\* None when there is no such element.
xmlGetDouble(c, node, tag, attrs) ==
    LET found == xmlGetNode(c, node, tag, attrs) IN
    IF found = None THEN None
    ELSE xmlGetTextNode(NodeAt(c, found.path))

---------------------------------------------------------------------------
(* SolidModel                                                              *)

PyFloat(literal) == [float |-> literal]

\* Lines 60-70, the keys SolidModel adds.
defaultValues ==
    [compaction |-> PyFloat("0.64"), frictional_threshold |-> PyFloat("0.6"),
     elasticity |-> PyFloat("0.9"), friction |-> "none", granular |-> "none",
     kinetic |-> "none", polydispersed |-> "off"]

\* What a method of SolidModel did: how it ended, the document and
\* self.ipp_node after it.
Done(r, c, ipp) == [r |-> r, case |-> c, ipp_node |-> ipp]

\* self.XMLThermo and self.__XMLNodefields (lines 47, 49).
XMLThermo(c) == xmlGetNode(c, Ref(<<>>), "thermophysical_models", EmptyAttrs)
XMLNodefields(c) == xmlGetNode(c, XMLThermo(c), "fields", EmptyAttrs)

\* Lines 39-49: the constructor looks solid_particles_properties up and
\* makes the fields node when the document has none.
SolidModelInit(c) ==
    LET fields == xmlInitNode(c, XMLThermo(c), "fields", EmptyAttrs) IN
    Done(Ok(None), fields.case,
         xmlGetNode(c, XMLThermo(c), "solid_particles_properties", EmptyAttrs))

\* self.mainFieldsModel.isFieldIdValid(fieldId): the id of a field of the
\* case.
isFieldIdValid(c, fieldId) ==
    xmlGetNode(c, XMLNodefields(c), "field", [field_id |-> fieldId]) # None

isInList(x, list) == x \in list
isOnOff(status) == status \in {"on", "off"}

\* The numbers tried are written as decimals; a positive one has no sign.
isPositiveFloat(value) == value \in {"0.5", "0.7"}

FrictionModels == {"none", "pressure", "fluxes"}
GranularModels == {"none", "pressure", "fluxes"}
KineticModels == {"none", "uncorrelate_collision", "correlate_collision"}

\* Lines 79-84, 111-116, 143-148: the body the three setters share, for
\* the child element tag and its allowed models.
SetModel(c, ipp, fieldId, model, tag, allowed) ==
    IF ~isFieldIdValid(c, fieldId) \/ ~isInList(model, allowed)
    THEN Done(Raise("ValueError"), c, ipp)
    ELSE LET node == xmlGetNode(c, XMLNodefields(c), "field", [field_id |-> fieldId])
             childNode == xmlInitChildNode(c, node, tag, EmptyAttrs)
         IN  Done(Ok(None), xmlSetAttribute(childNode.case, childNode.node, [model |-> model]),
                  ipp)

setFrictionModel(c, ipp, fieldId, model) ==
    SetModel(c, ipp, fieldId, model, "friction", FrictionModels)
setGranularModelM(c, ipp, fieldId, model) ==
    SetModel(c, ipp, fieldId, model, "friction", GranularModels)
setGranularModel(c, ipp, fieldId, model) ==
    SetModel(c, ipp, fieldId, model, "granular", GranularModels)
setKineticModel(c, ipp, fieldId, model) ==
    SetModel(c, ipp, fieldId, model, "kinetic", KineticModels)

\* Lines 93-102, 125-134, 157-166: the body the three getters share. When
\* the field has no tag element the getter calls the setter with the
\* default, then reads the model attribute.
GetModel(c, ipp, fieldId, tag, allowed) ==
    IF ~isFieldIdValid(c, fieldId) THEN Done(Raise("ValueError"), c, ipp)
    ELSE LET node == xmlGetNode(c, XMLNodefields(c), "field", [field_id |-> fieldId])
             noden == xmlGetNode(c, node, tag, EmptyAttrs)
             set == IF noden = None
                    THEN SetModel(c, ipp, fieldId, defaultValues[tag], tag, allowed)
                    ELSE Done(Ok(None), c, ipp)
         IN  IF set.r.outcome # "ok" THEN set
             ELSE LET n == NodeAt(set.case, xmlGetNode(set.case, node, tag, EmptyAttrs).path)
                  IN  Done(Ok(IF "model" \in DOMAIN n.attrs THEN n.attrs.model ELSE ""),
                           set.case, ipp)

getFrictionModel(c, ipp, fieldId) == GetModel(c, ipp, fieldId, "friction", FrictionModels)
getGranularModel(c, ipp, fieldId) == GetModel(c, ipp, fieldId, "granular", GranularModels)
getKineticModel(c, ipp, fieldId) == GetModel(c, ipp, fieldId, "kinetic", KineticModels)

\* Lines 51-57: __init_node.
InitNode(c, ipp) ==
    IF ipp = None
    THEN xmlInitNode(c, XMLThermo(c), "solid_particles_properties", EmptyAttrs)
    ELSE [case |-> c, node |-> ipp]

\* Lines 175-178, 202-205, 229-231: the body of the setters of a number.
SetData(c, ipp, tag, value, attrs) ==
    IF ~isPositiveFloat(value) THEN Done(Raise("ValueError"), c, ipp)
    ELSE LET init == InitNode(c, ipp) IN
         Done(Ok(None), xmlSetData(init.case, init.node, tag, value, attrs), init.node)

\* Lines 187-193, 215-221, 239-246: the body of the getters of a number.
GetData(c, ipp, tag, attrs, default) ==
    IF ipp = None THEN Done(Ok(default), c, ipp)
    ELSE LET value == xmlGetDouble(c, ipp, tag, attrs) IN
         Done(Ok(IF value = None THEN default ELSE PyFloat(value.text)), c, ipp)

setCompaction(c, ipp, value) == SetData(c, ipp, "solid_compaction", value, EmptyAttrs)
getCompaction(c, ipp) ==
    GetData(c, ipp, "solid_compaction", EmptyAttrs, defaultValues.compaction)

setMinFrictionalThreshold(c, ipp, value) ==
    SetData(c, ipp, "min_frictional_threshold", value, EmptyAttrs)
getMinFrictionalThreshold(c, ipp) ==
    GetData(c, ipp, "min_frictional_threshold", EmptyAttrs, defaultValues.frictional_threshold)

setElastCoeff(c, ipp, f_id, value) ==
    SetData(c, ipp, "elasticity_coefficient", value, [field_id |-> f_id])
getElastCoeff(c, ipp, f_id) ==
    GetData(c, ipp, "elasticity_coefficient", [field_id |-> f_id], defaultValues.elasticity)

\* Lines 254-258: the status is written in the polydispersion element.
setCouplingStatus(c, ipp, status) ==
    IF ~isOnOff(status) THEN Done(Raise("ValueError"), c, ipp)
    ELSE LET node == xmlInitNode(c, XMLThermo(c), "solid_particles_properties", EmptyAttrs)
             init == InitNode(node.case, ipp)
         IN  Done(Ok(None), xmlSetData(init.case, init.node, "polydispersion", status, EmptyAttrs),
                  init.node)

\* Lines 266-270: the status is read from the polydiserpsion element.
getCouplingStatus(c, ipp) ==
    IF ipp = None THEN Done(Ok([text |-> defaultValues.polydispersed]), c, ipp)
    ELSE Done(Ok(xmlGetString(c, ipp, "polydiserpsion")), c, ipp)

---------------------------------------------------------------------------
(* os.path.expanduser, os.path.abspath; Parser.setRepository,              *)
(* setDestination, addChild                                                *)

\* The home directory of the user and the working directory of the process.
Home == <<"/", "h">>
Cwd == <<"/", "w">>

\* The position of the first '/' of path at or after i, Len(path) + 1 when
\* there is none.
RECURSIVE SlashFrom(_, _)
SlashFrom(path, i) ==
    IF i > Len(path) \/ path[i] = "/" THEN i ELSE SlashFrom(path, i + 1)

\* s.rstrip('/')
RECURSIVE RStripSlash(_)
RStripSlash(s) ==
    IF s # <<>> /\ s[Len(s)] = "/" THEN RStripSlash(SubSeq(s, 1, Len(s) - 1)) ELSE s

\* os.path.expanduser: a leading '~' alone or before a '/' becomes the home
\* directory; '~name' of a user the system does not know is left as it is.
expanduser(path) ==
    IF path = <<>> \/ Head(path) # "~" THEN path
    ELSE IF SlashFrom(path, 2) # 2 THEN path
    ELSE LET rest == SubSeq(path, 2, Len(path))
             joined == RStripSlash(Home) \o rest
         IN  IF joined = <<>> THEN Slash ELSE joined

\* The loop of os.path.normpath on the names of a path that starts with a
\* '/': '..' drops the name before it, and is dropped at the root.
RECURSIVE NormLoop(_, _)
NormLoop(names, kept) ==
    IF names = <<>> THEN kept
    ELSE IF Head(names) = <<".", ".">>
         THEN NormLoop(Tail(names), IF kept = <<>> THEN kept ELSE SubSeq(kept, 1, Len(kept) - 1))
         ELSE NormLoop(Tail(names), Append(kept, Head(names)))

\* '/'.join(names)
RECURSIVE JoinNames(_)
JoinNames(names) ==
    IF names = <<>> THEN <<>>
    ELSE IF Len(names) = 1 THEN Head(names)
    ELSE Head(names) \o Slash \o JoinNames(Tail(names))

\* os.path.abspath: a relative path is joined to the working directory,
\* then normpath keeps exactly two leading slashes, else one, and joins the
\* names left.
abspath(path) ==
    LET full == IF path # <<>> /\ Head(path) = "/" THEN path ELSE Join(Cwd, path)
        two == Len(full) >= 2 /\ full[2] = "/" /\ ~(Len(full) >= 3 /\ full[3] = "/")
    IN  (IF two THEN <<"/", "/">> ELSE Slash) \o JoinNames(NormLoop(Components(full), <<>>))

\* The attributes of a Parser the methods below read and write.
Self(r, d, rp, ds) == [root |-> r, doc |-> d, repo |-> rp, dest |-> ds]

\* Lines 200-207.
setRepositoryM(self, repo_path) ==
    [self EXCEPT !.repo = PyStr(abspath(expanduser(repo_path))), !.dest = None]
setRepository(self, repo_path) ==
    [self EXCEPT !.repo = PyStr(abspath(expanduser(repo_path)))]

\* Lines 223-229.
setDestination(self, dest_path) ==
    [self EXCEPT !.dest = PyStr(abspath(expanduser(dest_path)))]

\* Lines 138-148: a new element named childname is appended to father, the
\* node at the path father below self.root. self.root is the first child
\* of self.doc and changes with it.
addChild(self, father, childname) ==
    LET r == self.root.node
        n == NodeAt(r, father)
        newRoot == ReplaceAt(r, father,
                             [n EXCEPT !.kids = Append(@, Node(childname, EmptyAttrs, <<>>))])
    IN  [self EXCEPT !.root = PyNode(newRoot),
                     !.doc = PyNode([self.doc.node EXCEPT !.kids[1] = newRoot])]

\* The number of elements of the tree n.
RECURSIVE Elements(_)
Elements(n) ==
    IF ~IsElement(n) THEN 0
    ELSE LET RECURSIVE Sum(_)
             Sum(i) == IF i > Len(n.kids) THEN 0 ELSE Elements(n.kids[i]) + Sum(i + 1)
         IN  1 + Sum(1)

---------------------------------------------------------------------------
(* Parser.getStudyMetadata                                                 *)

\* Lines 395-396: the data of the first child of every item element; an
\* item without a child, or led by an element, has no data.
RECURSIVE ItemsLoop(_, _)
ItemsLoop(nodes, vnvitem) ==
    IF nodes = <<>> THEN Ok(vnvitem)
    ELSE LET n == Head(nodes) IN
         IF n.kids = <<>> \/ ~HasData(n.kids[1]) THEN Raise("AttributeError")
         ELSE ItemsLoop(Tail(nodes), Append(vnvitem, n.kids[1].data))

\* An entry of data['cases'].
CaseEntry(name, tags, vnvitem) == [name |-> name, tags |-> tags, vnvitem |-> vnvitem]

\* Lines 382-398: one entry per case_description. The message of line 387
\* formats the name filename, which the method does not define: the raise
\* statement fails with a NameError.
RECURSIVE DescriptionLoop(_, _)
DescriptionLoop(nodes, cases) ==
    IF nodes = <<>> THEN Ok(cases)
    ELSE LET node_descr == Head(nodes) IN
         IF ~HasAttr(node_descr, "label") THEN Raise("KeyError")
         ELSE LET case_name == node_descr.attrs.label
                  items == ItemsLoop(getElementsByTagName(node_descr, "item"), <<>>)
              IN  IF \E i \in 1..Len(cases) : cases[i].name = case_name
                  THEN Raise("NameError")
                  ELSE IF items.outcome # "ok" THEN items
                  ELSE DescriptionLoop(Tail(nodes),
                                       Append(cases, CaseEntry(case_name, <<>>, items.val)))

\* Lines 404-407: the position of the last entry named case_name, counted
\* from 0, -1 when there is none.
CaseIdM(cases, case_name) == 0 - 1
CaseId(cases, case_name) ==
    LET idx == {i \in 1..Len(cases) : cases[i].name = case_name} IN
    IF idx = {} THEN 0 - 1 ELSE (CHOOSE i \in idx : \A j \in idx : j <= i) - 1

\* Lines 401-424: the tags of every case element go to the entry of its
\* label, which is added when there is none.
RECURSIVE MetadataCasesLoop(_, _)
MetadataCasesLoop(nodes, cases) ==
    IF nodes = <<>> THEN Ok(cases)
    ELSE LET node == Head(nodes) IN
         IF ~HasAttr(node, "label") THEN Raise("KeyError")
         ELSE LET case_name == node.attrs.label
                  found == CaseId(cases, case_name)
                  ctags == IF HasAttr(node, "tags") THEN SplitTags(node.attrs.tags) ELSE <<>>
                  all == IF found < 0 THEN Append(cases, CaseEntry(case_name, <<>>, <<>>))
                         ELSE cases
                  case_id == IF found < 0 THEN Len(all) - 1 ELSE found
              IN  MetadataCasesLoop(Tail(nodes),
                                    IF ctags # <<>>
                                    THEN [all EXCEPT ![case_id + 1].tags = @ \o ctags]
                                    ELSE all)

\* list(dict.fromkeys(s)): the members of s, each once, in the order of
\* their first places.
RECURSIVE FromKeys(_, _)
FromKeys(s, seen) ==
    IF s = <<>> THEN seen
    ELSE FromKeys(Tail(s), IF InList(Head(s), seen) THEN seen ELSE Append(seen, Head(s)))

\* Lines 428-430: the tags of the entries, one entry after the other.
RECURSIVE AllCaseTags(_)
AllCaseTags(cases) ==
    IF cases = <<>> THEN <<>> ELSE Head(cases).tags \o AllCaseTags(Tail(cases))

\* Lines 365-434. getStudyKeywords fails with an AttributeError on the None
\* that getStudyNode returns for a label no study carries.
getStudyMetadata(r, l) ==
    LET study_node == getStudyNode(r, l) IN
    IF study_node.outcome # "ok" THEN study_node
    ELSE IF study_node.val = None THEN Raise("AttributeError")
    ELSE LET keywords == getStudyKeywords(study_node.val.node)
             tags == getStudyTags(study_node.val.node)
             described == DescriptionLoop(
                              getElementsByTagName(study_node.val.node, "case_description"), <<>>)
         IN  IF keywords.outcome # "ok" THEN keywords
             ELSE IF tags.outcome # "ok" THEN tags
             ELSE IF described.outcome # "ok" THEN described
             ELSE LET cases == MetadataCasesLoop(
                                   getElementsByTagName(study_node.val.node, "case"),
                                   described.val)
                  IN  IF cases.outcome # "ok" THEN cases
                      ELSE Ok([study |-> ("name" :> PyStr(l)) @@ ("keywords" :> PyList(keywords.val))
                                         @@ ("tags::study" :> PyList(tags.val))
                                         @@ ("tags::cases" :> PyList(FromKeys(AllCaseTags(cases.val), <<>>))),
                               cases |-> cases.val])

---------------------------------------------------------------------------
(* Parser.getResult                                                        *)

\* Lines 678-694: the plot elements of a data element, the file, and the
\* optional dest and repo attributes.
getResult(node) ==
    IF ~HasAttr(node, "file") THEN Raise("KeyError")
    ELSE Ok([plots |-> IF node.tag = "data" THEN getElementsByTagName(node, "plot") ELSE <<>>,
             f |-> node.attrs.file,
             dest |-> AttrOrNone(node, "dest"),
             repo |-> AttrOrNone(node, "repo")])

---------------------------------------------------------------------------
(* The documents explored.                                                 *)

Labels == {<<"A">>, <<"B">>}
CaseLabels == {<<"C">>, <<"D">>}
StatusValues == {On, Off, <<"O", "N">>}
Alphabet == {"a", "b", " ", ","}

\* The tags value of the docstring of getStudyTags, as in 'a, b ,c'.
ExampleTags == <<"a", ",", " ", "b", " ", ",", "c">>

Custom == <<"c", "u", "s", "t", "o", "m">>

TagStrings == SeqsUpTo(Alphabet, MaxLen) \cup {ExampleTags}

\* <studymanager> with the given children, alone or beside a comment.
TopLevels(rootTag, kids) ==
    LET r == Node(rootTag, EmptyAttrs, kids)
    IN  {<<r>>, <<Comment, r>>, <<r, Comment>>}

\* A document made of one study under <studymanager>.
OneStudy(attrs, kids) ==
    <<Node("studymanager", EmptyAttrs, <<Node("study", attrs, kids)>>)>>

StudyElements ==
    {Node("study", [label |-> l, status |-> s], <<>>) : l \in Labels, s \in StatusValues}

StudyDocs ==
    {<<Node("studymanager", EmptyAttrs, ss)>> : ss \in SeqsUpTo(StudyElements, MaxStudies)}
    \cup UNION {TopLevels("studymanager", ss) : ss \in SeqsUpTo(StudyElements, 1)}
    \cup TopLevels("other", <<>>)

TagDocs ==
    {OneStudy([label |-> <<"A">>, status |-> s], <<>>) : s \in {On, Off}}
    \cup {OneStudy([label |-> <<"A">>, status |-> s, tags |-> t], <<>>) :
             s \in {On, Off}, t \in TagStrings}

KwTexts ==
    {<<"x">>, <<"x", ",", ",", "y">>, <<" ", "a", " ", ",", "b">>, <<",">>}

KwElements ==
    {Node("study_keywords", EmptyAttrs, <<>>),
     Node("study_keywords", EmptyAttrs, <<Node("b", EmptyAttrs, <<>>)>>)}
    \cup {Node("study_keywords", EmptyAttrs, <<Text(t)>>) : t \in KwTexts}

KwDocs ==
    {OneStudy([label |-> <<"A">>, status |-> On], ks) : ks \in SeqsUpTo(KwElements, MaxKw)}

RunIdCases ==
    {Node("case", [label |-> l, status |-> On], <<>>) : l \in CaseLabels}
    \cup {Node("case", [label |-> l, status |-> On, run_id |-> v], <<>>) :
             l \in CaseLabels, v \in {<<>>, Custom, Run \o <<"2">>}}
    \cup {Node("case", [label |-> <<"C">>, status |-> Off], <<>>)}

RunIdDocs ==
    {OneStudy([label |-> <<"A">>, status |-> On], cs) : cs \in SeqsUpTo(RunIdCases, MaxCases)}

CaseTagStrings == {<<"a">>, <<"b", " ", ",", "c">>}
StudyTagStrings == {<<>>, <<"a">>, <<"a", ",", " ", "b">>}

TaggedCases ==
    {Node("case", [label |-> <<"C">>, status |-> s], <<>>) : s \in {On, Off}}
    \cup {Node("case", [label |-> <<"C">>, status |-> s, tags |-> t], <<>>) :
             s \in {On, Off}, t \in CaseTagStrings}

TaggedDocs ==
    {OneStudy([label |-> <<"A">>, status |-> On], cs) : cs \in SeqsUpTo(TaggedCases, MaxCases)}
    \cup {OneStudy([label |-> <<"A">>, status |-> On, tags |-> t], cs) :
             t \in StudyTagStrings, cs \in SeqsUpTo(TaggedCases, MaxCases)}

\* The children of a case: setup elements with an args attribute or with
\* text, elements named after keys of the record, structural elements,
\* an element whose first child is an element, and text between elements.
CaseChildren ==
    {Node("notebook", [args |-> <<"x">>], <<>>),
     Node("notebook", EmptyAttrs, <<>>),
     Node("kw_args", EmptyAttrs, <<Text(<<"t">>)>>),
     Node("parametric", EmptyAttrs, <<Node("b", EmptyAttrs, <<>>)>>),
     Node("run_id", EmptyAttrs, <<Text(<<"z">>)>>),
     Node("label", EmptyAttrs, <<Text(<<"D">>)>>),
     Node("compare", EmptyAttrs, <<Text(<<"t">>)>>),
     Node("depends", [args |-> <<"d">>], <<>>),
     Text(<<" ">>)}

ParentCases ==
    {Node("case", [label |-> <<"C">>, status |-> On], ks) :
        ks \in SeqsUpTo(CaseChildren, MaxKids)}
    \cup {Node("case", [label |-> <<"C">>, status |-> On, run_id |-> Custom], ks) :
             ks \in SeqsUpTo(CaseChildren, MaxKids)}

ParentDocs ==
    {OneStudy([label |-> <<"A">>, status |-> On], <<c>>) : c \in ParentCases}

\* Values of expected_time: HH:MM, no separator, one-digit minutes, a sign,
\* the empty string.
TimeStrings ==
    {<<"0", "1", ":", "3", "0">>, <<"1", "3", "0">>, <<"1", ":", "5">>,
     <<"-", "1", ":", "3", "0">>, <<"5">>, <<>>,
     <<"1", ":", "3", "0", ":", "1", "5">>, <<"1", "2", ":", "3", "4", "5">>}
    \cup SeqsUpTo({"1", "5", ":"}, MaxLen)

\* Cases carrying the optional attributes one at a time.
AttributeCases ==
    {Node("case", [label |-> <<"C">>, status |-> On, expected_time |-> t], <<>>) :
        t \in TimeStrings}
    \cup {Node("case", [label |-> <<"C">>, status |-> On, n_procs |-> <<"2">>], <<>>),
          Node("case", [label |-> <<"C">>, status |-> On, compute |-> On], <<>>),
          Node("case", [label |-> <<"C">>, status |-> On, post |-> On], <<>>),
          Node("case", [label |-> <<"C">>, status |-> Off, compute |-> On], <<>>),
          Node("case", [status |-> On], <<>>),
          Node("case", [label |-> <<"C">>], <<>>)}

AttributeDocs ==
    {OneStudy([label |-> <<"A">>, status |-> On], <<c>>) : c \in AttributeCases}

\* Cases with and without the flags compute, post and compare.
FlagCases ==
    {Node("case", [label |-> l, status |-> On], <<>>) : l \in CaseLabels}
    \cup {Node("case", [label |-> l, status |-> On, compute |-> v], <<>>) :
             l \in CaseLabels, v \in {On, Off}}
    \cup {Node("case", [label |-> <<"C">>, status |-> Off, compute |-> On], <<>>),
          Node("case", [label |-> <<"C">>, status |-> On, post |-> On], <<>>),
          Node("case", [label |-> <<"C">>, status |-> On, compare |-> On], <<>>)}

FlagDocs ==
    {OneStudy([label |-> <<"A">>, status |-> On], cs) : cs \in SeqsUpTo(FlagCases, MaxCases)}

\* The values of the parameter attr of getStatusOnCasesLabels.
AttrValues == {None, [name |-> ""], [name |-> "compute"]}

Documents ==
    StudyDocs \cup TagDocs \cup KwDocs \cup RunIdDocs \cup TaggedDocs
    \cup ParentDocs \cup AttributeDocs \cup FlagDocs

Files ==
    {[syntaxOk |-> TRUE, dom |-> Document(ks)] : ks \in Documents}
    \cup {[syntaxOk |-> FALSE, dom |-> Document(<<>>)]}

---------------------------------------------------------------------------
(* The state machine: the constructor, then any sequence of queries.       *)

\* No SolidModel and no QMegEditorView beside the Parser.
NoSolidModel == case = None /\ ipp_node = None
NoEditor == meg_to_c = None /\ dialog = None /\ textEditExpression = None

Init ==
    /\ file \in Files
    /\ disk = EmptyDisk
    /\ pc = "new"
    /\ root = None
    /\ repo = None
    /\ dest = None
    /\ doc = None
    /\ ret = [op |-> "none", arg |-> None, outcome |-> "ok", val |-> None]
    /\ stdout = <<>>
    /\ NoSolidModel
    /\ NoEditor

\* What a failed call left: the exception raised or the exit status.
Failure(r) == IF r.outcome = "raise" THEN [exc |-> r.val] ELSE [code |-> r.val]

AfterCall(r) == IF r.outcome = "exit" THEN "exited" ELSE "ready"

Construct ==
    /\ pc = "new"
    /\ LET res == ParserInit(file) IN
        /\ root' = res.root
        /\ ret' = [op |-> "__init__", arg |-> None, outcome |-> res.r.outcome,
                   val |-> IF res.r.outcome = "ok" THEN None ELSE Failure(res.r)]
        /\ stdout' = res.out
        /\ pc' = IF res.r.outcome = "ok" THEN "ready"
                 ELSE IF res.r.outcome = "exit" THEN "exited" ELSE "failed"
    /\ doc' = IF file.syntaxOk THEN PyNode(file.dom) ELSE None
    /\ repo' = None
    /\ dest' = None
    /\ UNCHANGED <<file, disk, solidVars, editorVars>>

GetStudiesLabel ==
    /\ pc = "ready"
    /\ LET r == getStudiesLabel(root.node) IN
        /\ ret' = [op |-> "getStudiesLabel", arg |-> None, outcome |-> r.outcome,
                   val |-> IF r.outcome = "ok" THEN PyList(r.val) ELSE Failure(r)]
        /\ stdout' = IF r.outcome = "exit" THEN <<"Several occurences of Study">> ELSE <<>>
        /\ pc' = AfterCall(r)
    /\ UNCHANGED <<file, disk, root, repo, dest, doc, solidVars, editorVars>>

GetStudyNode ==
    /\ pc = "ready"
    /\ \E l \in Labels :
        LET r == getStudyNode(root.node, l) IN
            /\ ret' = [op |-> "getStudyNode", arg |-> PyStr(l), outcome |-> r.outcome,
                       val |-> IF r.outcome = "ok" THEN r.val ELSE Failure(r)]
            /\ pc' = AfterCall(r)
    /\ stdout' = <<>>
    /\ UNCHANGED <<file, disk, root, repo, dest, doc, solidVars, editorVars>>

\* The callers hand getStudyTags and getStudyKeywords a study element of
\* the document.
StudyNodes == getElementsByTagName(root.node, "study")

GetStudyTags ==
    /\ pc = "ready"
    /\ \E i \in 1..Len(StudyNodes) :
        LET r == getStudyTags(StudyNodes[i]) IN
            /\ ret' = [op |-> "getStudyTags", arg |-> PyNode(StudyNodes[i]),
                       outcome |-> r.outcome,
                       val |-> IF r.outcome = "ok" THEN PyList(r.val) ELSE Failure(r)]
            /\ pc' = AfterCall(r)
    /\ stdout' = <<>>
    /\ UNCHANGED <<file, disk, root, repo, dest, doc, solidVars, editorVars>>

GetStudyKeywords ==
    /\ pc = "ready"
    /\ \E i \in 1..Len(StudyNodes) :
        LET r == getStudyKeywords(StudyNodes[i]) IN
            /\ ret' = [op |-> "getStudyKeywords", arg |-> PyNode(StudyNodes[i]),
                       outcome |-> r.outcome,
                       val |-> IF r.outcome = "ok" THEN PyList(r.val) ELSE Failure(r)]
            /\ pc' = AfterCall(r)
    /\ stdout' = <<>>
    /\ UNCHANGED <<file, disk, root, repo, dest, doc, solidVars, editorVars>>

GetStatusOnCasesLabels ==
    /\ pc = "ready"
    /\ \E l \in Labels, attr \in AttrValues :
        LET r == getStatusOnCasesLabels(root.node, l, attr) IN
            /\ ret' = [op |-> "getStatusOnCasesLabels",
                       arg |-> [str |-> l, attr |-> attr], outcome |-> r.outcome,
                       val |-> IF r.outcome = "ok" THEN PyList(r.val) ELSE Failure(r)]
            /\ pc' = AfterCall(r)
    /\ stdout' = <<>>
    /\ UNCHANGED <<file, disk, root, repo, dest, doc, solidVars, editorVars>>

GetStatusOnCasesKeywords ==
    /\ pc = "ready"
    /\ \E l \in Labels :
        LET res == getStatusOnCasesKeywords(root.node, l) IN
            /\ ret' = [op |-> "getStatusOnCasesKeywords", arg |-> PyStr(l),
                       outcome |-> res.r.outcome,
                       val |-> IF res.r.outcome = "ok" THEN [records |-> res.r.val]
                               ELSE Failure(res.r)]
            /\ stdout' = res.out
            /\ pc' = AfterCall(res.r)
    /\ UNCHANGED <<file, disk, root, repo, dest, doc, solidVars, editorVars>>

Next ==
    \/ Construct
    \/ GetStudiesLabel
    \/ GetStudyNode
    \/ GetStudyTags
    \/ GetStudyKeywords
    \/ GetStatusOnCasesLabels
    \/ GetStatusOnCasesKeywords

Spec == Init /\ [][Next]_vars

---------------------------------------------------------------------------
(* The directives of a case and of a study: compare, prepro, script and    *)
(* postpro elements, read by getCompare, getPrepro, getScript, getPostPro. *)

Path == <<"p">>
Args == <<"-", "x">>

CompareElements ==
    {Node("compare", [repo |-> <<>>, dest |-> <<>>], <<>>),
     Node("compare", [repo |-> Path, dest |-> <<>>, status |-> On], <<>>),
     Node("compare", [repo |-> <<>>, dest |-> Path, status |-> Off,
                      args |-> Args, threshold |-> <<"1">>], <<>>),
     Node("compare", [dest |-> Path, status |-> On], <<>>),
     Node("compare", [repo |-> Path, status |-> On], <<>>),
     Node("compare", [status |-> On, args |-> Args], <<>>)}

PreproElements ==
    {Node("prepro", [label |-> <<"s">>, status |-> On], <<>>),
     Node("prepro", [label |-> <<"t">>, status |-> Off, args |-> Args], <<>>),
     Node("prepro", [status |-> On], <<>>)}

ScriptElements ==
    {Node("script", [label |-> <<"s">>, status |-> On], <<>>),
     Node("script", [label |-> <<"t">>, status |-> Off, args |-> Args,
                     repo |-> Path, dest |-> Path], <<>>),
     Node("script", [label |-> <<"s">>, status |-> On, repo |-> Path], <<>>),
     Node("script", [label |-> <<"s">>, status |-> On, dest |-> Path], <<>>),
     Node("script", [label |-> <<"s">>], <<>>)}

PostProElements ==
    {Node("postpro", [label |-> <<"s">>, status |-> On], <<>>),
     Node("postpro", [label |-> <<"t">>, status |-> Off, args |-> Args], <<>>),
     Node("postpro", [label |-> <<"s">>, status |-> On],
          <<Node("data", [file |-> <<"f">>], <<>>)>>),
     Node("postpro", [label |-> <<"s">>], <<>>)}

\* One enabled case with directives, or one study with postpro elements
\* beside an enabled case.
DirectiveDocs ==
    {OneStudy([label |-> <<"A">>, status |-> On],
              <<Node("case", [label |-> <<"C">>, status |-> On], ks)>>) :
        ks \in SeqsUpTo(CompareElements \cup PreproElements \cup ScriptElements, MaxKids)}
    \cup {OneStudy([label |-> <<"A">>, status |-> On],
                   <<Node("case", [label |-> <<"C">>, status |-> On], <<>>)>> \o ks) :
             ks \in SeqsUpTo(PostProElements, MaxKids)}

DirectiveFiles == {[syntaxOk |-> TRUE, dom |-> Document(ks)] : ks \in DirectiveDocs}

DirectiveInit ==
    /\ file \in DirectiveFiles
    /\ disk = EmptyDisk
    /\ pc = "new"
    /\ root = None
    /\ repo = None
    /\ dest = None
    /\ doc = None
    /\ ret = [op |-> "none", arg |-> None, outcome |-> "ok", val |-> None]
    /\ stdout = <<>>
    /\ NoSolidModel
    /\ NoEditor

\* The callers hand getCompare, getPrepro and getScript a case element of
\* the document.
CaseNodes == getElementsByTagName(root.node, "case")

GetCompare ==
    /\ pc = "ready"
    /\ \E i \in 1..Len(CaseNodes) :
        LET r == getCompare(CaseNodes[i]) IN
            /\ ret' = [op |-> "getCompare", arg |-> PyNode(CaseNodes[i]),
                       outcome |-> r.outcome,
                       val |-> IF r.outcome = "ok" THEN [compare |-> r.val] ELSE Failure(r)]
            /\ pc' = AfterCall(r)
    /\ stdout' = <<>>
    /\ UNCHANGED <<file, disk, root, repo, dest, doc, solidVars, editorVars>>

GetPrepro ==
    /\ pc = "ready"
    /\ \E i \in 1..Len(CaseNodes) :
        LET r == getPrepro(CaseNodes[i]) IN
            /\ ret' = [op |-> "getPrepro", arg |-> PyNode(CaseNodes[i]),
                       outcome |-> r.outcome,
                       val |-> IF r.outcome = "ok" THEN [prepro |-> r.val] ELSE Failure(r)]
            /\ pc' = AfterCall(r)
    /\ stdout' = <<>>
    /\ UNCHANGED <<file, disk, root, repo, dest, doc, solidVars, editorVars>>

GetScript ==
    /\ pc = "ready"
    /\ \E i \in 1..Len(CaseNodes) :
        LET r == getScript(CaseNodes[i]) IN
            /\ ret' = [op |-> "getScript", arg |-> PyNode(CaseNodes[i]),
                       outcome |-> r.outcome,
                       val |-> IF r.outcome = "ok" THEN [script |-> r.val] ELSE Failure(r)]
            /\ pc' = AfterCall(r)
    /\ stdout' = <<>>
    /\ UNCHANGED <<file, disk, root, repo, dest, doc, solidVars, editorVars>>

GetPostPro ==
    /\ pc = "ready"
    /\ \E l \in Labels :
        LET r == getPostPro(root.node, l) IN
            /\ ret' = [op |-> "getPostPro", arg |-> PyStr(l), outcome |-> r.outcome,
                       val |-> IF r.outcome = "ok" THEN [postpro |-> r.val] ELSE Failure(r)]
            /\ pc' = AfterCall(r)
    /\ stdout' = <<>>
    /\ UNCHANGED <<file, disk, root, repo, dest, doc, solidVars, editorVars>>

DirectiveNext ==
    \/ Construct
    \/ GetCompare
    \/ GetPrepro
    \/ GetScript
    \/ GetPostPro

DirectiveSpec == DirectiveInit /\ [][DirectiveNext]_vars

---------------------------------------------------------------------------
(* The attribute readers, on subplot elements with an xlim attribute.      *)

MaxTuple == 4

TupleAlphabet == {"(", ")", ",", "1", "2"}

\* Longer values: the three numbers of '(a,b,c)', the same list without
\* parentheses, blanks around the numbers, brackets.
ExampleTuples ==
    {<<"(", "1", ",", "2", ",", "3", ")">>,
     <<"1", "1", ",", "2", ",", "3", "3">>,
     <<"1", ",", "2", ",", "3">>,
     <<"(", " ", "1", " ", ",", "2", ")">>,
     <<"[", "1", ",", "2", "]">>}

TupleStrings == SeqsUpTo(TupleAlphabet, MaxTuple) \cup ExampleTuples

TupleDocs ==
    {OneStudy([label |-> <<"A">>, status |-> On],
              <<Node("subplot", [id |-> <<"1">>, xlim |-> t], <<>>)>>) : t \in TupleStrings}
    \cup {OneStudy([label |-> <<"A">>, status |-> On],
                   <<Node("subplot", [id |-> <<"1">>], <<>>)>>)}

TupleFiles == {[syntaxOk |-> TRUE, dom |-> Document(ks)] : ks \in TupleDocs}

TupleInit ==
    /\ file \in TupleFiles
    /\ disk = EmptyDisk
    /\ pc = "new"
    /\ root = None
    /\ repo = None
    /\ dest = None
    /\ doc = None
    /\ ret = [op |-> "none", arg |-> None, outcome |-> "ok", val |-> None]
    /\ stdout = <<>>
    /\ NoSolidModel
    /\ NoEditor

\* The defaults a caller passes: none, an empty one, a value.
StringDefaults == {None, PyStr(<<>>), PyStr(<<"d">>)}
TupleDefaults == {None, PyTuple(<<>>), PyTuple(<<0, 1>>)}

Subplots == getElementsByTagName(root.node, "subplot")

GetAttribute ==
    /\ pc = "ready"
    /\ \E i \in 1..Len(Subplots), k \in {"id", "xlim"}, d \in StringDefaults :
        LET r == Parser_getAttribute(Subplots[i], k, d) IN
            /\ ret' = [op |-> "getAttribute",
                       arg |-> [node |-> Subplots[i], k |-> k, default |-> d],
                       outcome |-> r.outcome,
                       val |-> IF r.outcome = "ok" THEN r.val ELSE Failure(r)]
            /\ pc' = AfterCall(r)
    /\ stdout' = <<>>
    /\ UNCHANGED <<file, disk, root, repo, dest, doc, solidVars, editorVars>>

GetAttributeTuple ==
    /\ pc = "ready"
    /\ \E i \in 1..Len(Subplots), k \in {"id", "xlim"}, d \in TupleDefaults :
        LET r == getAttributeTuple(Subplots[i], k, d) IN
            /\ ret' = [op |-> "getAttributeTuple",
                       arg |-> [node |-> Subplots[i], k |-> k, default |-> d],
                       outcome |-> r.outcome,
                       val |-> IF r.outcome = "ok" THEN r.val ELSE Failure(r)]
            /\ pc' = AfterCall(r)
    /\ stdout' = <<>>
    /\ UNCHANGED <<file, disk, root, repo, dest, doc, solidVars, editorVars>>

TupleNext ==
    \/ Construct
    \/ GetAttribute
    \/ GetAttributeTuple

TupleSpec == TupleInit /\ [][TupleNext]_vars

---------------------------------------------------------------------------
(* getRepository and getDestination, on documents with repository and      *)
(* destination elements.                                                   *)

MaxPaths == 3

RepositoryText == <<"/", "r">>
DestinationText == <<"/", "d">>

\* A repository or destination element: with its text, empty, with an
\* element or a comment before the text.
PathElement(tag, text) ==
    {Node(tag, EmptyAttrs, <<Text(text)>>),
     Node(tag, EmptyAttrs, <<>>),
     Node(tag, EmptyAttrs, <<Node("b", EmptyAttrs, <<>>), Text(text)>>),
     Node(tag, EmptyAttrs, <<Comment, Text(text)>>)}

\* The children of <studymanager>: the path elements, a study, a study
\* that holds a repository element of its own.
PathElements ==
    PathElement("repository", RepositoryText)
    \cup PathElement("destination", DestinationText)
    \cup {Node("study", [label |-> <<"A">>, status |-> On], <<>>),
          Node("study", [label |-> <<"A">>, status |-> On],
               <<Node("repository", EmptyAttrs, <<Text(RepositoryText)>>)>>)}

PathDocs ==
    {<<Node("studymanager", EmptyAttrs, ks)>> : ks \in SeqsUpTo(PathElements, MaxPaths)}

PathFiles == {[syntaxOk |-> TRUE, dom |-> Document(ks)] : ks \in PathDocs}

PathInit ==
    /\ file \in PathFiles
    /\ disk = EmptyDisk
    /\ pc = "new"
    /\ root = None
    /\ repo = None
    /\ dest = None
    /\ doc = None
    /\ ret = [op |-> "none", arg |-> None, outcome |-> "ok", val |-> None]
    /\ stdout = <<>>
    /\ NoSolidModel
    /\ NoEditor

\* ret.before is self.__repo (self.__dest) when the call starts.
GetRepository ==
    /\ pc = "ready"
    /\ LET g == getRepository(root.node, repo) IN
        /\ ret' = [op |-> "getRepository", arg |-> None, before |-> repo,
                   outcome |-> g.r.outcome,
                   val |-> IF g.r.outcome = "ok" THEN g.r.val ELSE Failure(g.r)]
        /\ repo' = g.cache
        /\ stdout' = g.out
        /\ pc' = AfterCall(g.r)
    /\ UNCHANGED <<file, disk, root, dest, doc, solidVars, editorVars>>

GetDestination ==
    /\ pc = "ready"
    /\ LET g == getDestination(root.node, dest) IN
        /\ ret' = [op |-> "getDestination", arg |-> None, before |-> dest,
                   outcome |-> g.r.outcome,
                   val |-> IF g.r.outcome = "ok" THEN g.r.val ELSE Failure(g.r)]
        /\ dest' = g.cache
        /\ stdout' = g.out
        /\ pc' = AfterCall(g.r)
    /\ UNCHANGED <<file, disk, root, repo, doc, solidVars, editorVars>>

PathNext ==
    \/ Construct
    \/ GetRepository
    \/ GetDestination

PathSpec == PathInit /\ [][PathNext]_vars

---------------------------------------------------------------------------
(* getMeasurement, on studies with measurement elements and a directory    *)
(* tree under the repository.                                              *)

MaxMeasurements == 2

FileM == <<"m">>
FileSets == {{}, {FileM}}

\* The directories under /r/A: one named s and POST with its directory d,
\* listed in either order, each with or without the file m.
StudyDirs ==
    LET s(f) == Dir(<<"s">>, <<>>, f)
        post(f, g) == Dir(POST, <<Dir(<<"d">>, <<>>, g)>>, f)
    IN  {<<s(f1), post(f2, f3)>> : f1 \in FileSets, f2 \in FileSets, f3 \in FileSets}
        \cup {<<post(f2, f3), s(f1)>> : f1 \in FileSets, f2 \in FileSets, f3 \in FileSets}

Disks ==
    {Dir(<<>>, <<Dir(<<"r">>, <<Dir(<<"A">>, sub, f)>>, {})>>, {}) :
        sub \in StudyDirs, f \in FileSets}
    \cup {EmptyDisk}

\* Measurement elements: with an empty path, a path under POST, an
\* absolute path, no path attribute; with and without plot elements.
MeasurementElements ==
    {Node("measurement", [file |-> FileM, path |-> <<>>],
          <<Node("plot", [fig |-> <<"1">>], <<>>)>>),
     Node("measurement", [file |-> FileM, path |-> <<"d">>], <<>>),
     Node("measurement", [file |-> FileM, path |-> <<"/", "x">>],
          <<Node("plot", [fig |-> <<"2">>], <<>>)>>),
     Node("measurement", [file |-> FileM], <<>>)}

RepositoryElements ==
    {<<>>,
     <<Node("repository", EmptyAttrs, <<Text(RepositoryText)>>)>>,
     <<Node("repository", EmptyAttrs, <<>>)>>}

MeasurementDocs ==
    {<<Node("studymanager", EmptyAttrs,
            rs \o <<Node("study", [label |-> <<"A">>, status |-> On], ms)>>)>> :
        rs \in RepositoryElements, ms \in SeqsUpTo(MeasurementElements, MaxMeasurements)}

MeasurementFiles == {[syntaxOk |-> TRUE, dom |-> Document(ks)] : ks \in MeasurementDocs}

MeasurementInit ==
    /\ file \in MeasurementFiles
    /\ disk \in Disks
    /\ pc = "new"
    /\ root = None
    /\ repo = None
    /\ dest = None
    /\ doc = None
    /\ ret = [op |-> "none", arg |-> None, outcome |-> "ok", val |-> None]
    /\ stdout = <<>>
    /\ NoSolidModel
    /\ NoEditor

GetMeasurement ==
    /\ pc = "ready"
    /\ \E l \in Labels :
        LET g == getMeasurement(root.node, l, repo, disk) IN
            /\ ret' = [op |-> "getMeasurement", arg |-> PyStr(l), before |-> repo,
                       outcome |-> g.r.outcome,
                       val |-> IF g.r.outcome = "ok"
                               THEN [nodes |-> g.r.val.nodes, files |-> g.r.val.files]
                               ELSE Failure(g.r)]
            /\ repo' = g.cache
            /\ stdout' = g.out
            /\ pc' = AfterCall(g.r)
    /\ UNCHANGED <<file, disk, root, dest, doc, solidVars, editorVars>>

MeasurementNext ==
    \/ Construct
    \/ GetMeasurement

MeasurementSpec == MeasurementInit /\ [][MeasurementNext]_vars

---------------------------------------------------------------------------
(* write(), on studies and cases whose attribute values hold blanks,       *)
(* tabs, newlines and characters written as references.                    *)

MaxWritten == 2

Tab == "\t"
Newline == "\n"

WrittenLabels == {<<"A">>, <<"A", Newline>>, <<"B", " ">>}
WrittenTags == {<<"a", ",", "b">>, <<"a", Tab, "b">>, <<"&">>}
WrittenTimes == {<<"0", "1", ":", "3", "0">>, <<Newline, "1", ":", "3", "0">>}

WrittenCases ==
    {Node("case", [label |-> l, status |-> s], <<>>) :
        l \in {<<"C">>, <<"C", Tab>>}, s \in {On, Off}}
    \cup {Node("case", [label |-> <<"C">>, status |-> On, run_id |-> v], <<>>) :
             v \in {<<>>, Custom, <<"<", Newline>>}}
    \cup {Node("case", [label |-> <<"D">>, status |-> On, expected_time |-> t], <<>>) :
             t \in WrittenTimes}
    \cup {Node("case", [label |-> <<"D">>, status |-> On, n_procs |-> <<"2">>, tags |-> t],
               <<Text(<<Newline>>)>>) : t \in WrittenTags}
    \cup {Text(<<Newline, " ">>)}

WrittenStudies ==
    {Node("study", [label |-> l, status |-> s], cs) :
        l \in WrittenLabels, s \in {On, Off}, cs \in SeqsUpTo(WrittenCases, MaxWritten)}
    \cup {Node("study", [label |-> l, status |-> On, tags |-> t], cs) :
             l \in WrittenLabels, t \in WrittenTags, cs \in SeqsUpTo(WrittenCases, 1)}

WrittenDocs ==
    {<<Node("studymanager", EmptyAttrs, <<s>>)>> : s \in WrittenStudies}
    \cup {<<Node("studymanager", EmptyAttrs,
                 <<s, Node("study", [label |-> <<"B">>, status |-> On], <<>>)>>), Comment>> :
             s \in {t \in WrittenStudies : t.kids = <<>>}}

WrittenFiles == {[syntaxOk |-> TRUE, dom |-> Document(ks)] : ks \in WrittenDocs}

WrittenInit ==
    /\ file \in WrittenFiles
    /\ disk = EmptyDisk
    /\ pc = "new"
    /\ root = None
    /\ repo = None
    /\ dest = None
    /\ doc = None
    /\ ret = [op |-> "none", arg |-> None, outcome |-> "ok", val |-> None]
    /\ stdout = <<>>
    /\ NoSolidModel
    /\ NoEditor

\* self.doc is the document parsed from the file.
Write ==
    /\ pc = "ready"
    /\ ret' = [op |-> "write", arg |-> None, outcome |-> "ok",
               val |-> [text |-> write(doc.node)]]
    /\ stdout' = <<>>
    /\ UNCHANGED <<file, disk, pc, root, repo, dest, doc, solidVars, editorVars>>

WrittenNext ==
    \/ Construct
    \/ Write

WrittenSpec == WrittenInit /\ [][WrittenNext]_vars

---------------------------------------------------------------------------
(* setRepository, setDestination, getRepository, getDestination and        *)
(* addChild, on documents with repository and destination elements.        *)

MaxCached == 2
MaxGrown == 4

CachedElements ==
    {Node("repository", EmptyAttrs, <<Text(RepositoryText)>>),
     Node("repository", EmptyAttrs, <<>>),
     Node("destination", EmptyAttrs, <<Text(DestinationText)>>),
     Node("destination", EmptyAttrs, <<>>)}

CachedDocs ==
    {<<Node("studymanager", EmptyAttrs, ks)>> : ks \in SeqsUpTo(CachedElements, MaxCached)}

CachedFiles == {[syntaxOk |-> TRUE, dom |-> Document(ks)] : ks \in CachedDocs}

\* The paths given to the setters: relative, under the home directory,
\* with '.', '..' and doubled separators, with two leading separators,
\* empty.
SetPaths ==
    {<<"r">>, <<"~", "/", "r">>, <<"/", "r", "/", ".", "/", ".", ".", "/", "d", "/", "/">>,
     <<"/", "/", "r">>, <<>>}

CachedInit ==
    /\ file \in CachedFiles
    /\ disk = EmptyDisk
    /\ pc = "new"
    /\ root = None
    /\ repo = None
    /\ dest = None
    /\ doc = None
    /\ ret = [op |-> "none", arg |-> None, outcome |-> "ok", val |-> None]
    /\ stdout = <<>>
    /\ NoSolidModel
    /\ NoEditor

\* A method that writes attributes of the Parser: self is the Parser after
\* the call.
ParserCall(op, arg, self) ==
    /\ ret' = [op |-> op, arg |-> arg, outcome |-> "ok", val |-> None]
    /\ root' = self.root
    /\ doc' = self.doc
    /\ repo' = self.repo
    /\ dest' = self.dest
    /\ stdout' = <<>>
    /\ UNCHANGED <<file, disk, pc, solidVars, editorVars>>

SetRepository ==
    /\ pc = "ready"
    /\ \E p \in SetPaths :
        ParserCall("setRepository", PyStr(p), setRepository(Self(root, doc, repo, dest), p))

SetDestination ==
    /\ pc = "ready"
    /\ \E p \in SetPaths :
        ParserCall("setDestination", PyStr(p), setDestination(Self(root, doc, repo, dest), p))

\* The father is self.root or one of its children.
AddChild ==
    /\ pc = "ready"
    /\ Elements(root.node) < MaxGrown
    /\ \E father \in {<<>>} \cup {<<i>> : i \in 1..Len(root.node.kids)},
          childname \in {"repository", "destination"} :
        ParserCall("addChild", [father |-> father, childname |-> childname],
                   addChild(Self(root, doc, repo, dest), father, childname))

CachedNext ==
    \/ Construct
    \/ GetRepository
    \/ GetDestination
    \/ SetRepository
    \/ SetDestination
    \/ AddChild

CachedSpec == CachedInit /\ [][CachedNext]_vars

---------------------------------------------------------------------------
(* getStudyMetadata, on studies with case descriptions and cases.          *)

MaxDescribed == 3

DescribedElements ==
    {Node("case_description", [label |-> <<"C">>],
          <<Node("item", EmptyAttrs, <<Text(<<"i">>)>>)>>),
     Node("case_description", [label |-> <<"D">>], <<>>),
     Node("case", [label |-> <<"C">>, status |-> On, tags |-> <<"a">>], <<>>),
     Node("case", [label |-> <<"C">>, status |-> Off, tags |-> <<"b", ",", " ", "a">>], <<>>),
     Node("case", [label |-> <<"D">>, status |-> On], <<>>),
     Node("case", [label |-> <<"D">>, status |-> On, tags |-> <<"b">>], <<>>),
     Node("case", [label |-> <<"C">>, status |-> On, tags |-> <<>>], <<>>)}

DescribedDocs ==
    {OneStudy([label |-> <<"A">>, status |-> On, tags |-> <<"s">>], ks) :
        ks \in SeqsUpTo(DescribedElements, MaxDescribed)}

DescribedFiles == {[syntaxOk |-> TRUE, dom |-> Document(ks)] : ks \in DescribedDocs}

MetadataInit ==
    /\ file \in DescribedFiles
    /\ disk = EmptyDisk
    /\ pc = "new"
    /\ root = None
    /\ repo = None
    /\ dest = None
    /\ doc = None
    /\ ret = [op |-> "none", arg |-> None, outcome |-> "ok", val |-> None]
    /\ stdout = <<>>
    /\ NoSolidModel
    /\ NoEditor

GetStudyMetadata ==
    /\ pc = "ready"
    /\ \E l \in Labels :
        LET r == getStudyMetadata(root.node, l) IN
            /\ ret' = [op |-> "getStudyMetadata", arg |-> PyStr(l), outcome |-> r.outcome,
                       val |-> IF r.outcome = "ok" THEN r.val ELSE Failure(r)]
            /\ pc' = AfterCall(r)
    /\ stdout' = <<>>
    /\ UNCHANGED <<file, disk, root, repo, dest, doc, solidVars, editorVars>>

MetadataNext ==
    \/ Construct
    \/ GetStudyMetadata

MetadataSpec == MetadataInit /\ [][MetadataNext]_vars

---------------------------------------------------------------------------
(* QMegEditorView.accept, reject, get_result, and the interpreter they     *)
(* call (meg_to_c_interpreter: init_block, update_block_expression,        *)
(* check_meg_code_syntax, clean_tmp_dir).                                  *)

\* The interpreter: its function blocks in the order of the loops of
\* funcs, the expressions whose syntax it accepts, the number of times its
\* temporary directory was cleaned.
Interpreter(funcs, valid, cleaned) == [funcs |-> funcs, valid |-> valid, cleaned |-> cleaned]

\* meg_to_c.init_block(function_type, zone_name, variable_name, expression,
\* ...): one more block, of that expression.
init_block(meg, function_type, expression) ==
    [meg EXCEPT !.funcs = Append(@, [func_type |-> function_type, expression |-> expression])]

\* meg_to_c.update_block_expression(func_type, k, new_exp), k being the
\* k-th block.
update_block_expression(meg, k, new_exp) == [meg EXCEPT !.funcs[k].expression = new_exp]

\* meg_to_c.check_meg_code_syntax(func_type): 0 when every block of that
\* type holds an expression of valid syntax, 1 otherwise.
check_meg_code_syntax(meg, func_type) ==
    IF \A k \in 1..Len(meg.funcs) :
           meg.funcs[k].func_type = func_type => meg.funcs[k].expression \in meg.valid
    THEN 0 ELSE 1

\* meg_to_c.clean_tmp_dir()
clean_tmp_dir(meg) == [meg EXCEPT !.cleaned = @ + 1]

\* The dialog: open or closed with a result, the message box it showed
\* last, textChanged connected to slotClearBackground or not.
Dialog(open, result, critical, connected) ==
    [open |-> open, result |-> result, critical |-> critical, connected |-> connected]

\* The attributes of a QMegEditorView the methods below read and write.
View(meg, dlg, edit) == [meg_to_c |-> meg, dialog |-> dlg, textEditExpression |-> edit]

\* Lines 155-176 and 271: the interpreter is made with one block, of the
\* expression shown in the editor.
QMegEditorViewInit(function_type, expression, valid) ==
    View(init_block(Interpreter(<<>>, valid, 0), function_type, expression),
         Dialog(TRUE, "none", FALSE, FALSE),
         [text |-> expression])

\* Lines 379-383: every block takes the new expression and is checked;
\* check is the result of the last check made.
RECURSIVE CheckLoop(_, _, _, _)
CheckLoop(meg, k, new_exp, check) ==
    IF k > Len(meg.funcs) THEN [meg |-> meg, check |-> check]
    ELSE LET updated == update_block_expression(meg, k, new_exp) IN
         CheckLoop(updated, k + 1, new_exp,
                   check_meg_code_syntax(updated, updated.funcs[k].func_type))

\* Lines 360-393.
acceptM(self) ==
    LET checked == CheckLoop(self.meg_to_c, 1, self.textEditExpression.text \o <<Newline>>, 0)
    IN  [self EXCEPT !.meg_to_c = clean_tmp_dir(checked.meg),
                     !.dialog = Dialog(FALSE, "accepted", FALSE, self.dialog.connected)]
accept(self) ==
    IF self.meg_to_c = None
    THEN [self EXCEPT !.dialog = Dialog(FALSE, "accepted", FALSE, self.dialog.connected)]
    ELSE LET new_exp == self.textEditExpression.text \o <<Newline>>
             checked == CheckLoop(self.meg_to_c, 1, new_exp, 0)
         IN  IF checked.check # 0
             THEN [self EXCEPT !.meg_to_c = checked.meg,
                               !.dialog = Dialog(TRUE, "none", TRUE, TRUE)]
             ELSE [self EXCEPT !.meg_to_c = clean_tmp_dir(checked.meg),
                               !.dialog = Dialog(FALSE, "accepted", FALSE, self.dialog.connected)]

\* Lines 396-402.
reject(self) ==
    [self EXCEPT !.meg_to_c = clean_tmp_dir(self.meg_to_c),
                 !.dialog = Dialog(FALSE, "rejected", FALSE, self.dialog.connected)]

\* Lines 405-409.
get_result(self) == self.textEditExpression.text

---------------------------------------------------------------------------
(* The expression editor at work: the user edits the text, clicks OK or    *)
(* Cancel.                                                                 *)

\* The texts typed: empty, an expression, an unfinished one.
Expressions == {<<>>, <<"x">>, <<"x", "+">>}

\* The function types of the blocks edited.
FunctionTypes == {"vol", "bnd"}

EditorInit ==
    /\ file = None
    /\ disk = EmptyDisk
    /\ pc = "ready"
    /\ root = None
    /\ repo = None
    /\ dest = None
    /\ doc = None
    /\ ret = [op |-> "none", arg |-> None, outcome |-> "ok", val |-> None]
    /\ stdout = <<>>
    /\ NoSolidModel
    /\ \E f \in FunctionTypes, e \in Expressions,
          valid \in SUBSET {x \o <<Newline>> : x \in Expressions} :
        LET self == QMegEditorViewInit(f, e, valid) IN
        /\ meg_to_c = self.meg_to_c
        /\ dialog = self.dialog
        /\ textEditExpression = self.textEditExpression

\* A call on the view: ret.before is the view when the call starts.
EditorCall(op, val, self) ==
    /\ ret' = [op |-> op, arg |-> None, outcome |-> "ok", val |-> val,
               before |-> View(meg_to_c, dialog, textEditExpression)]
    /\ meg_to_c' = self.meg_to_c
    /\ dialog' = self.dialog
    /\ textEditExpression' = self.textEditExpression
    /\ UNCHANGED <<parserVars, solidVars>>

\* The user clicks OK.
Accept ==
    /\ dialog.open
    /\ EditorCall("accept", None, accept(View(meg_to_c, dialog, textEditExpression)))

\* The user clicks Cancel or closes the window.
Reject ==
    /\ dialog.open
    /\ EditorCall("reject", None, reject(View(meg_to_c, dialog, textEditExpression)))

\* The user changes the text; lines 339-353: slotClearBackground, when
\* connected, disconnects itself.
EditText ==
    /\ dialog.open
    /\ \E t \in Expressions :
        /\ t # textEditExpression.text
        /\ EditorCall("edit", None,
                      View(meg_to_c, [dialog EXCEPT !.connected = FALSE], [text |-> t]))

\* The caller reads the result of a closed dialog.
GetResult ==
    /\ ~dialog.open
    /\ EditorCall("get_result", PyStr(get_result(View(meg_to_c, dialog, textEditExpression))),
                  View(meg_to_c, dialog, textEditExpression))

EditorNext ==
    \/ Accept
    \/ Reject
    \/ EditText
    \/ GetResult

EditorSpec == EditorInit /\ [][EditorNext]_vars

---------------------------------------------------------------------------
(* The queries and the setters of the paths together, then write().        *)

\* The children of the study: a case with a compare, a prepro and a script
\* directive and a data element, a subplot, keywords.
FramedCase ==
    Node("case", [label |-> <<"C">>, status |-> On, tags |-> <<"a">>],
         <<Node("compare", [repo |-> <<>>, dest |-> <<>>, status |-> On], <<>>),
           Node("prepro", [label |-> <<"s">>, status |-> On], <<>>),
           Node("script", [label |-> <<"s">>, status |-> On], <<>>),
           Node("data", [file |-> <<"f">>, dest |-> <<"d">>],
                <<Node("plot", EmptyAttrs, <<>>)>>),
           Node("resu", EmptyAttrs, <<>>)>>)

FramedStudy ==
    Node("study", [label |-> <<"A">>, status |-> On, tags |-> <<"s">>],
         <<Node("study_keywords", EmptyAttrs, <<Text(<<"x">>)>>),
           FramedCase,
           Node("subplot", [id |-> <<"1">>, xlim |-> <<"(", "1", ",", "2", ")">>], <<>>)>>)

\* The study alone, with the two path elements, with an empty repository
\* and no destination, with a second study that is off.
FramedDocs ==
    {<<Node("studymanager", EmptyAttrs, <<FramedStudy>>)>>,
     <<Node("studymanager", EmptyAttrs,
            <<Node("repository", EmptyAttrs, <<Text(RepositoryText)>>),
              Node("destination", EmptyAttrs, <<Text(DestinationText)>>),
              FramedStudy>>)>>,
     <<Node("studymanager", EmptyAttrs,
            <<Node("repository", EmptyAttrs, <<>>), FramedStudy>>)>>,
     <<Node("studymanager", EmptyAttrs,
            <<Node("destination", EmptyAttrs, <<Text(DestinationText)>>),
              FramedStudy,
              Node("study", [label |-> <<"B">>, status |-> Off], <<>>)>>)>>}

FramedFiles == {[syntaxOk |-> TRUE, dom |-> Document(ks)] : ks \in FramedDocs}

FramedInit ==
    /\ file \in FramedFiles
    /\ disk = EmptyDisk
    /\ pc = "new"
    /\ root = None
    /\ repo = None
    /\ dest = None
    /\ doc = None
    /\ ret = [op |-> "none", arg |-> None, outcome |-> "ok", val |-> None]
    /\ stdout = <<>>
    /\ NoSolidModel
    /\ NoEditor

\* The callers hand getResult a data or a resu element of the document.
ResultNodes == getElementsByTagName(root.node, "data") \o getElementsByTagName(root.node, "resu")

GetParserResult ==
    /\ pc = "ready"
    /\ \E i \in 1..Len(ResultNodes) :
        LET r == getResult(ResultNodes[i]) IN
            /\ ret' = [op |-> "getResult", arg |-> PyNode(ResultNodes[i]),
                       outcome |-> r.outcome,
                       val |-> IF r.outcome = "ok" THEN r.val ELSE Failure(r)]
            /\ pc' = AfterCall(r)
    /\ stdout' = <<>>
    /\ UNCHANGED <<file, disk, root, repo, dest, doc, solidVars, editorVars>>

FramedNext ==
    \/ Construct
    \/ GetStudiesLabel
    \/ GetStudyNode
    \/ GetStudyTags
    \/ GetStudyKeywords
    \/ GetStatusOnCasesLabels
    \/ GetStatusOnCasesKeywords
    \/ GetStudyMetadata
    \/ GetCompare
    \/ GetPrepro
    \/ GetScript
    \/ GetParserResult
    \/ GetAttribute
    \/ GetRepository
    \/ GetDestination
    \/ SetRepository
    \/ SetDestination
    \/ Write

FramedSpec == FramedInit /\ [][FramedNext]_vars

---------------------------------------------------------------------------
(* The solid-particle model at work: a SolidModel is built on the document *)
(* of a case, then its setters and getters are called.                     *)

MaxElements == 8

FieldElement(id, kids) == Node("field", [field_id |-> id], kids)

\* The field elements of the cases: two fields, the first with or without
\* a friction model chosen.
SolidFields ==
    {<<FieldElement("1", <<>>), FieldElement("2", <<>>)>>,
     <<FieldElement("1", <<Node("friction", [model |-> "pressure"], <<>>)>>),
       FieldElement("2", <<>>)>>}

\* The solid_particles_properties element of the cases: none, an empty
\* one, one that holds a compaction.
SolidProperties ==
    {<<>>,
     <<Node("solid_particles_properties", EmptyAttrs, <<>>)>>,
     <<Node("solid_particles_properties", EmptyAttrs,
            <<Node("solid_compaction", EmptyAttrs, <<Text(<<"0.5">>)>>)>>)>>}

SolidCases ==
    {Node("Code_Saturne_GUI", EmptyAttrs,
          <<Node("thermophysical_models", EmptyAttrs,
                 <<Node("fields", EmptyAttrs, fs)>> \o ps)>>) :
        fs \in SolidFields, ps \in SolidProperties}

FieldIds == {"1", "2", "3"}
ModelNames == {"pressure", "uncorrelate_collision", "unknown"}
Numbers == {"0.7", "-1"}
Statuses == {"on", "off", "maybe"}

SolidInit ==
    /\ file = None
    /\ disk = EmptyDisk
    /\ pc = "new"
    /\ root = None
    /\ repo = None
    /\ dest = None
    /\ doc = None
    /\ ret = [op |-> "none", arg |-> None, outcome |-> "ok", val |-> None]
    /\ stdout = <<>>
    /\ case \in SolidCases
    /\ ipp_node = None
    /\ NoEditor

\* A call of a method of SolidModel: ret.before is the document and
\* self.ipp_node when the call starts.
SolidCall(op, arg, done) ==
    /\ ret' = [op |-> op, arg |-> arg, outcome |-> done.r.outcome, val |-> done.r.val,
               before |-> [case |-> case, ipp_node |-> ipp_node]]
    /\ case' = done.case
    /\ ipp_node' = done.ipp_node
    /\ pc' = "ready"
    /\ UNCHANGED <<file, disk, root, repo, dest, doc, stdout, editorVars>>

NewSolidModel ==
    /\ pc = "new"
    /\ SolidCall("__init__", None, SolidModelInit(case))

\* The documents explored stay small.
SolidReady == pc = "ready" /\ Elements(case) < MaxElements

SetFrictionModel ==
    /\ SolidReady
    /\ \E f \in FieldIds, m \in ModelNames :
        SolidCall("setFrictionModel", [fieldId |-> f, model |-> m],
                  setFrictionModel(case, ipp_node, f, m))

GetFrictionModel ==
    /\ SolidReady
    /\ \E f \in FieldIds :
        SolidCall("getFrictionModel", [fieldId |-> f], getFrictionModel(case, ipp_node, f))

SetGranularModel ==
    /\ SolidReady
    /\ \E f \in FieldIds, m \in ModelNames :
        SolidCall("setGranularModel", [fieldId |-> f, model |-> m],
                  setGranularModel(case, ipp_node, f, m))

GetGranularModel ==
    /\ SolidReady
    /\ \E f \in FieldIds :
        SolidCall("getGranularModel", [fieldId |-> f], getGranularModel(case, ipp_node, f))

SetKineticModel ==
    /\ SolidReady
    /\ \E f \in FieldIds, m \in ModelNames :
        SolidCall("setKineticModel", [fieldId |-> f, model |-> m],
                  setKineticModel(case, ipp_node, f, m))

GetKineticModel ==
    /\ SolidReady
    /\ \E f \in FieldIds :
        SolidCall("getKineticModel", [fieldId |-> f], getKineticModel(case, ipp_node, f))

SetCompaction ==
    /\ SolidReady
    /\ \E v \in Numbers :
        SolidCall("setCompaction", [value |-> v], setCompaction(case, ipp_node, v))

GetCompaction ==
    /\ SolidReady
    /\ SolidCall("getCompaction", None, getCompaction(case, ipp_node))

SetMinFrictionalThreshold ==
    /\ SolidReady
    /\ \E v \in Numbers :
        SolidCall("setMinFrictionalThreshold", [value |-> v],
                  setMinFrictionalThreshold(case, ipp_node, v))

GetMinFrictionalThreshold ==
    /\ SolidReady
    /\ SolidCall("getMinFrictionalThreshold", None, getMinFrictionalThreshold(case, ipp_node))

SetElastCoeff ==
    /\ SolidReady
    /\ \E f \in FieldIds, v \in Numbers :
        SolidCall("setElastCoeff", [f_id |-> f, value |-> v],
                  setElastCoeff(case, ipp_node, f, v))

GetElastCoeff ==
    /\ SolidReady
    /\ \E f \in FieldIds :
        SolidCall("getElastCoeff", [f_id |-> f], getElastCoeff(case, ipp_node, f))

SetCouplingStatus ==
    /\ SolidReady
    /\ \E s \in Statuses :
        SolidCall("setCouplingStatus", [status |-> s], setCouplingStatus(case, ipp_node, s))

GetCouplingStatus ==
    /\ SolidReady
    /\ SolidCall("getCouplingStatus", None, getCouplingStatus(case, ipp_node))

SolidNext ==
    \/ NewSolidModel
    \/ SetFrictionModel
    \/ GetFrictionModel
    \/ SetGranularModel
    \/ GetGranularModel
    \/ SetKineticModel
    \/ GetKineticModel
    \/ SetCompaction
    \/ GetCompaction
    \/ SetMinFrictionalThreshold
    \/ GetMinFrictionalThreshold
    \/ SetElastCoeff
    \/ GetElastCoeff
    \/ SetCouplingStatus
    \/ GetCouplingStatus

SolidSpec == SolidInit /\ [][SolidNext]_vars

---------------------------------------------------------------------------
(* The properties, stated on the document itself.                          *)

Range(s) == {s[i] : i \in 1..Len(s)}

\* The root element of the file: its only top-level element.
DocumentElement == CHOOSE n \in Range(file.dom.kids) : IsElement(n)

\* The first top-level node of the file.
FirstTopLevel == file.dom.kids[1]

\* Every study element of the document, in document order.
AllStudies == getElementsByTagName(Document(file.dom.kids), "study")

IsOnStudy(n) == n.attrs.status = On

OnStudies == SelectSeq(AllStudies, IsOnStudy)

\* Two enabled studies carry the same label.
DuplicateOnLabel ==
    \E i, j \in 1..Len(OnStudies) : i < j /\ OnStudies[i].attrs.label = OnStudies[j].attrs.label

---------------------------------------------------------------------------
\* C1 as stated: constructing Parser on a document whose first top-level
\* node is not named 'studymanager' exits and never yields a usable Parser,
\* and constructing it on a document whose root element is 'studymanager'
\* succeeds.
C1_RootStudymanagerSucceeds ==
    (file.syntaxOk /\ pc # "new") =>
        /\ FirstTopLevel.tag # "studymanager" => pc = "exited"
        /\ (DocumentElement.tag = "studymanager" /\ ret.op = "__init__") =>
               (ret.outcome = "ok" /\ pc = "ready")

\* What the constructor does: the first top-level node decides.  When it is
\* not named 'studymanager' the process exits with status 1; when it is, the
\* constructor succeeds and keeps it as self.root.
FirstNodeDecides ==
    (file.syntaxOk /\ pc # "new") =>
        /\ FirstTopLevel.tag # "studymanager" =>
               (pc = "exited" /\ ret.op = "__init__" /\ ret.outcome = "exit" /\ ret.val.code = 1)
        /\ (FirstTopLevel.tag = "studymanager" /\ ret.op = "__init__") =>
               (ret.outcome = "ok" /\ pc = "ready" /\ root = PyNode(FirstTopLevel))

\* A document led by a comment, whose root element is 'studymanager', has
\* been refused by the constructor.
CommentLedRefused ==
    /\ file.syntaxOk
    /\ ret.op = "__init__"
    /\ ret.outcome = "exit"
    /\ FirstTopLevel.tag = "#comment"
    /\ DocumentElement.tag = "studymanager"

---------------------------------------------------------------------------
\* C2: when getStudiesLabel returns, its result is the labels of the study
\* elements whose status is 'on', in document order, each label once; a
\* study with any other status adds nothing.
C2_StudiesLabelExact ==
    (ret.op = "getStudiesLabel" /\ ret.outcome = "ok") =>
        /\ Len(ret.val.list) = Len(OnStudies)
        /\ \A i \in 1..Len(OnStudies) : ret.val.list[i] = OnStudies[i].attrs.label
        /\ \A i, j \in 1..Len(ret.val.list) : i # j => ret.val.list[i] # ret.val.list[j]

\* C2 witness: getStudiesLabel returned two labels from a document that
\* also holds a study whose status is not 'on'.
C2_Witness ==
    /\ ret.op = "getStudiesLabel"
    /\ ret.outcome = "ok"
    /\ Len(ret.val.list) = 2
    /\ Len(AllStudies) = 3
    /\ AllStudies[2].attrs.status = <<"O", "N">>

\* C3: getStudiesLabel exits if and only if two study elements with status
\* 'on' carry the same label; a label repeated on studies that are not 'on'
\* does not make it fail.
C3_ExitIffDuplicate ==
    ret.op = "getStudiesLabel" =>
        /\ (ret.outcome = "exit") <=> DuplicateOnLabel
        /\ ret.outcome \in {"ok", "exit"}
        /\ (pc = "exited") <=> DuplicateOnLabel

\* C3 witness: getStudiesLabel exited on a document with a duplicated
\* enabled label.
C3_Witness ==
    /\ ret.op = "getStudiesLabel"
    /\ ret.outcome = "exit"
    /\ DuplicateOnLabel
    /\ \E i \in 1..Len(AllStudies) : AllStudies[i].attrs.status = Off

\* C4 as stated: getStudyNode(l) returns a study element with label l and
\* status 'on', raises when no study element has label l and when the
\* study with label l is not 'on', and never returns None.
C4_StudyNodeNeverNone ==
    ret.op = "getStudyNode" =>
        /\ ret.outcome = "ok" =>
               /\ ret.val # None
               /\ ret.val.node.attrs.label = ret.arg.str
               /\ ret.val.node.attrs.status = On
        /\ (\A i \in 1..Len(AllStudies) : AllStudies[i].attrs.label # ret.arg.str) =>
               ret.outcome = "raise"
        /\ ( /\ \E i \in 1..Len(AllStudies) : AllStudies[i].attrs.label = ret.arg.str
             /\ \A i \in 1..Len(AllStudies) :
                    AllStudies[i].attrs.label = ret.arg.str => AllStudies[i].attrs.status # On ) =>
               ret.outcome = "raise"

---------------------------------------------------------------------------
\* The study a label names: the first study element carrying it.
StudyOf(l) ==
    LET idx == {i \in 1..Len(AllStudies) : AllStudies[i].attrs.label = l}
    IN  AllStudies[CHOOSE i \in idx : \A j \in idx : i <= j]

IsOnCase(n) == n.attrs.status = On

\* The enabled cases of study l, in document order.
OnCases(l) == SelectSeq(getElementsByTagName(StudyOf(l), "case"), IsOnCase)

\* getStatusOnCasesKeywords has returned its list of records.
CasesKeywordsReturned == ret.op = "getStatusOnCasesKeywords" /\ ret.outcome = "ok"

\* The list it returned.
Records == ret.val.records

\* C5: getStatusOnCasesKeywords(l) returns one record per case of study l
\* whose status is 'on', in document order, and none for the other cases:
\* the result is as long as the list of enabled cases.
C5_OneRecordPerOnCase ==
    CasesKeywordsReturned =>
        /\ Len(Records) = Len(OnCases(ret.arg.str))
        /\ \A i \in 1..Len(Records) : Records[i].node = PyNode(OnCases(ret.arg.str)[i])

\* C5 witness: one record was returned for a study of two cases, the first
\* of which is 'off'.
C5_Witness ==
    /\ CasesKeywordsReturned
    /\ Len(Records) = 1
    /\ Len(getElementsByTagName(StudyOf(ret.arg.str), "case")) = 2
    /\ getElementsByTagName(StudyOf(ret.arg.str), "case")[1].attrs.status = Off

\* The number of enabled cases of study l up to the i-th that carry the
\* label of the i-th.
Occurrence(l, i) ==
    Cardinality({j \in 1..i : OnCases(l)[j].attrs.label = OnCases(l)[i].attrs.label})

\* C6 as stated: in every record, a case whose run_id attribute is present
\* and non-empty keeps it as run_id; a case whose run_id is absent or empty
\* gets 'run' followed by the 1-based count of enabled cases with its label
\* seen so far, itself included.
C6_RunIdAssigned ==
    CasesKeywordsReturned =>
        \A i \in 1..Len(Records) :
            LET c == OnCases(ret.arg.str)[i] IN
            IF "run_id" \in DOMAIN c.attrs /\ c.attrs.run_id # <<>>
            THEN Records[i].run_id = PyStr(c.attrs.run_id)
            ELSE /\ Records[i].run_id = PyStr(Run \o IntToStr(Occurrence(ret.arg.str, i)))
                 /\ Occurrence(ret.arg.str, i) = 1 => Records[i].run_id = PyStr(Run \o <<"1">>)
                 /\ Occurrence(ret.arg.str, i) = 2 => Records[i].run_id = PyStr(Run \o <<"2">>)
                 /\ Occurrence(ret.arg.str, i) = 3 => Records[i].run_id = PyStr(Run \o <<"3">>)

\* C7 as stated: in the result of one getStatusOnCasesKeywords call no two
\* records have both the same label and the same run_id.
C7_RunIdDisambiguates ==
    CasesKeywordsReturned =>
        \A i, j \in 1..Len(Records) :
            i < j => ~(Records[i].label = Records[j].label /\ Records[i].run_id = Records[j].run_id)

\* The tokens of a tags attribute, [] when the element has none.
TagsOf(n) == IF "tags" \in DOMAIN n.attrs THEN SplitTags(n.attrs.tags) ELSE <<>>

\* The tags of a record as a list: None stands for no tag.
RecordTags(d) == IF d.tags = None THEN <<>> ELSE d.tags.list

Count(x, s) == Cardinality({i \in 1..Len(s) : s[i] = x})

\* C8 as stated: the tags of every record are the union of the tags of its
\* case and the tags of the study: each of them appears, no other tag
\* appears, and a tag carried by both appears once.
C8_TagsAreUnion ==
    CasesKeywordsReturned =>
        \A i \in 1..Len(Records) :
            LET own   == Range(TagsOf(Records[i].node.node))
                study == Range(TagsOf(StudyOf(ret.arg.str)))
            IN  /\ Range(RecordTags(Records[i])) = own \cup study
                /\ \A t \in own \cap study : Count(t, RecordTags(Records[i])) = 1

---------------------------------------------------------------------------
\* The positions of the commas of a text, and the ends of the text.
Cuts(text) == {i \in 1..Len(text) : text[i] = ","} \cup {0, Len(text) + 1}

\* The k-th smallest element of a set of numbers.
Kth(S, k) == CHOOSE x \in S : Cardinality({y \in S : y < x}) = k - 1

\* The k-th comma-separated piece of a text.
Piece(text, k) == SubSeq(text, Kth(Cuts(text), k) + 1, Kth(Cuts(text), k + 1) - 1)

\* A piece without the whitespace around it.
Trimmed(p) ==
    LET ink == {i \in 1..Len(p) : ~IsSpace(p[i])}
    IN  IF ink = {} THEN <<>>
        ELSE SubSeq(p, CHOOSE i \in ink : \A j \in ink : i <= j,
                       CHOOSE i \in ink : \A j \in ink : j <= i)

\* C9: for an enabled study getStudyTags returns the comma-separated pieces
\* of the tags attribute, each without its surrounding whitespace, in their
\* original order ('a, b ,c' gives a, b, c), and the empty list when the
\* study has no tags attribute.
C9_StudyTagsSplit ==
    (ret.op = "getStudyTags" /\ ret.arg.node.attrs.status = On) =>
        /\ ret.outcome = "ok"
        /\ IF "tags" \notin DOMAIN ret.arg.node.attrs
           THEN ret.val.list = <<>>
           ELSE LET text == ret.arg.node.attrs.tags IN
                /\ Len(ret.val.list) = Cardinality(Cuts(text)) - 1
                /\ \A k \in 1..Len(ret.val.list) :
                       ret.val.list[k] = Trimmed(Piece(text, k))
                /\ text = ExampleTags => ret.val.list = << <<"a">>, <<"b">>, <<"c">> >>

\* C9 witness: getStudyTags returned a, b, c for the tags 'a, b ,c'.
C9_Witness ==
    /\ ret.op = "getStudyTags"
    /\ ret.outcome = "ok"
    /\ "tags" \in DOMAIN ret.arg.node.attrs
    /\ ret.arg.node.attrs.tags = ExampleTags
    /\ ret.val.list = << <<"a">>, <<"b">>, <<"c">> >>

\* C10 as stated: every token of the lists returned by getStudyTags and
\* getStudyKeywords is a non-empty string, whatever the attribute or the
\* child text holds.
C10_TokensNonEmpty ==
    (ret.op \in {"getStudyTags", "getStudyKeywords"} /\ ret.outcome = "ok") =>
        \A k \in 1..Len(ret.val.list) : ret.val.list[k] # <<>>

---------------------------------------------------------------------------
\* The study l exists and is enabled: getStudyNode(l) returns it.
StudyEnabled(l) ==
    /\ \E i \in 1..Len(AllStudies) : AllStudies[i].attrs.label = l
    /\ StudyOf(l).attrs.status = On

\* Every case of study l carries status, and label when it is enabled.
CasesWellFormed(l) ==
    \A c \in Range(getElementsByTagName(StudyOf(l), "case")) :
        /\ "status" \in DOMAIN c.attrs
        /\ c.attrs.status = On => "label" \in DOMAIN c.attrs

\* The enabled cases of study l that the claim keeps for attr: all of them
\* without attr, those whose attribute attr is 'on' with it.
KeptCases(l, attr) ==
    SelectSeq(OnCases(l),
              LAMBDA c : ~AttrGiven(attr)
                         \/ (attr.name \in DOMAIN c.attrs /\ c.attrs[attr.name] = On))

\* C11 as stated: getStatusOnCasesLabels(l, attr) returns, in document
\* order, the labels of the enabled cases of study l, with attr only those
\* whose attribute attr is 'on'; a case without the attribute is left out
\* and the call does not fail.
C11_CasesLabelsFiltered ==
    ( /\ ret.op = "getStatusOnCasesLabels"
      /\ StudyEnabled(ret.arg.str)
      /\ CasesWellFormed(ret.arg.str) ) =>
        /\ ret.outcome = "ok"
        /\ Len(ret.val.list) = Len(KeptCases(ret.arg.str, ret.arg.attr))
        /\ \A i \in 1..Len(ret.val.list) :
               ret.val.list[i] = KeptCases(ret.arg.str, ret.arg.attr)[i].attrs.label

\* What getStatusOnCasesLabels does: the same, provided every enabled case
\* carries the attribute; if one does not, the call raises KeyError.
CasesLabelsOrKeyError ==
    ( /\ ret.op = "getStatusOnCasesLabels"
      /\ StudyEnabled(ret.arg.str)
      /\ CasesWellFormed(ret.arg.str) ) =>
        IF /\ AttrGiven(ret.arg.attr)
           /\ \E c \in Range(OnCases(ret.arg.str)) : ret.arg.attr.name \notin DOMAIN c.attrs
        THEN ret.outcome = "raise" /\ ret.val.exc = "KeyError"
        ELSE /\ ret.outcome = "ok"
             /\ Len(ret.val.list) = Len(KeptCases(ret.arg.str, ret.arg.attr))
             /\ \A i \in 1..Len(ret.val.list) :
                    ret.val.list[i] = KeptCases(ret.arg.str, ret.arg.attr)[i].attrs.label

---------------------------------------------------------------------------
\* The number a string of decimal digits writes.
RECURSIVE Number(_)
Number(s) ==
    IF s = <<>> THEN 0
    ELSE 10 * Number(SubSeq(s, 1, Len(s) - 1)) + DigitValue(s[Len(s)])

AllDigits(s) == s # <<>> /\ \A i \in 1..Len(s) : s[i] \in Digits

Colons(t) == {i \in 1..Len(t) : t[i] = ":"}

\* t has one ':' between two strings of digits: its hours and minutes.
HasHoursMinutes(t) ==
    /\ Cardinality(Colons(t)) = 1
    /\ LET p == CHOOSE i \in Colons(t) : TRUE
       IN  AllDigits(SubSeq(t, 1, p - 1)) /\ AllDigits(SubSeq(t, p + 1, Len(t)))

TotalMinutes(t) ==
    LET p == CHOOSE i \in Colons(t) : TRUE
    IN  60 * Number(SubSeq(t, 1, p - 1)) + Number(SubSeq(t, p + 1, Len(t)))

\* t is of the form HH:MM: hours, ':' and two digits of minutes.
IsHHMM(t) ==
    HasHoursMinutes(t) /\ Len(t) - (CHOOSE i \in Colons(t) : TRUE) = 2

\* C12 as stated: the expected_time of a record is None when the case has
\* no expected_time attribute, 60*HH + MM when the attribute reads HH:MM
\* ('01:30' gives 90), and for any other value never an integer other than
\* 60*HH + MM: None when the value has no hours and minutes.
C12_ExpectedTimeMinutes ==
    CasesKeywordsReturned =>
        \A i \in 1..Len(Records) :
            LET c == OnCases(ret.arg.str)[i] IN
            IF "expected_time" \notin DOMAIN c.attrs
            THEN Records[i].expected_time = None
            ELSE LET t == c.attrs.expected_time IN
                 /\ IsHHMM(t) => Records[i].expected_time = PyInt(TotalMinutes(t))
                 /\ t = <<"0", "1", ":", "3", "0">> => Records[i].expected_time = PyInt(90)
                 /\ Records[i].expected_time # None =>
                        /\ HasHoursMinutes(t)
                        /\ Records[i].expected_time = PyInt(TotalMinutes(t))

---------------------------------------------------------------------------
RetiredFlags == {"compute", "post", "compare"}

\* An enabled case of study l carries one of the retired attributes.
CarriesRetiredFlag(l) ==
    \E c \in Range(OnCases(l)) : RetiredFlags \cap DOMAIN c.attrs # {}

\* C13 as stated: getStatusOnCasesKeywords prints the deprecation warning
\* exactly when an enabled case carries compute, post or compare, each of
\* them alone being enough, and returns the full list of records with and
\* without the warning.
C13_WarningOnRetiredFlags ==
    CasesKeywordsReturned =>
        /\ (stdout # <<>>) <=> CarriesRetiredFlag(ret.arg.str)
        /\ Len(Records) = Len(OnCases(ret.arg.str))

\* What getStatusOnCasesKeywords does: the warning is printed exactly when
\* an enabled case carries compute; the full list is returned either way.
WarningOnCompute ==
    CasesKeywordsReturned =>
        /\ (stdout # <<>>) <=>
               \E c \in Range(OnCases(ret.arg.str)) : "compute" \in DOMAIN c.attrs
        /\ Len(Records) = Len(OnCases(ret.arg.str))

---------------------------------------------------------------------------
\* The elements a directive reader matches: those named tag under the case
\* it was handed, or under the study it was asked for.
Matching(tag) ==
    IF ret.op = "getPostPro"
    THEN getElementsByTagName(StudyOf(ret.arg.str), tag)
    ELSE getElementsByTagName(ret.arg.node, tag)

\* The value of attribute k of element e, None or the default when absent.
Optional(e, k) == IF k \in DOMAIN e.attrs THEN PyStr(e.attrs[k]) ELSE None
OrEmpty(e, k) == IF k \in DOMAIN e.attrs THEN e.attrs[k] ELSE <<>>

\* C14: whenever getCompare, getPrepro, getScript or getPostPro returns, all
\* the sequences it returns are as long as the list of matching elements
\* under the node, and position i of each describes the i-th matching
\* element in document order.
C14_ParallelSequences ==
    /\ (ret.op = "getCompare" /\ ret.outcome = "ok") =>
           LET m == Matching("compare")
               v == ret.val.compare
           IN  /\ \A k \in DOMAIN v : Len(v[k]) = Len(m)
               /\ \A i \in 1..Len(m) :
                      /\ v.nodes[i] = m[i]
                      /\ v.compare[i] = ("status" \in DOMAIN m[i].attrs => m[i].attrs.status = On)
                      /\ v.repo[i] = m[i].attrs.repo
                      /\ v.dest[i] = m[i].attrs.dest
                      /\ v.threshold[i] = Optional(m[i], "threshold")
                      /\ v.args[i] = Optional(m[i], "args")
    /\ (ret.op = "getPrepro" /\ ret.outcome = "ok") =>
           LET m == Matching("prepro")
               v == ret.val.prepro
           IN  /\ \A k \in DOMAIN v : Len(v[k]) = Len(m)
               /\ \A i \in 1..Len(m) :
                      /\ v.nodes[i] = m[i]
                      /\ v.prepro[i] = (m[i].attrs.status = On)
                      /\ v.label[i] = m[i].attrs.label
                      /\ v.args[i] = OrEmpty(m[i], "args")
    /\ (ret.op = "getScript" /\ ret.outcome = "ok") =>
           LET m == Matching("script")
               v == ret.val.script
           IN  /\ \A k \in DOMAIN v : Len(v[k]) = Len(m)
               /\ \A i \in 1..Len(m) :
                      /\ v.nodes[i] = m[i]
                      /\ v.script[i] = (m[i].attrs.status = On)
                      /\ v.label[i] = m[i].attrs.label
                      /\ v.args[i] = OrEmpty(m[i], "args")
                      /\ v.repo[i] = Optional(m[i], "repo")
                      /\ v.dest[i] = Optional(m[i], "dest")
    /\ (ret.op = "getPostPro" /\ ret.outcome = "ok") =>
           LET m == Matching("postpro")
               v == ret.val.postpro
           IN  /\ \A k \in DOMAIN v : Len(v[k]) = Len(m)
               /\ \A i \in 1..Len(m) :
                      /\ v.nodes[i] = m[i]
                      /\ v.scripts[i] = (m[i].attrs.status = On)
                      /\ v.labels[i] = m[i].attrs.label
                      /\ v.args[i] = OrEmpty(m[i], "args")

\* C14 witness: getScript returned the six sequences for two script
\* elements, the first without repo and the second with it.
C14_Witness ==
    /\ ret.op = "getScript"
    /\ ret.outcome = "ok"
    /\ Len(ret.val.script.nodes) = 2
    /\ "repo" \notin DOMAIN ret.val.script.nodes[1].attrs
    /\ "repo" \in DOMAIN ret.val.script.nodes[2].attrs
    /\ Len(ret.val.script.repo) = 2

\* C15 as stated: repo and dest are optional on compare and script
\* elements: getCompare and getScript return normally, with None at the
\* index of an element that lacks the attribute.
C15_RepoDestOptional ==
    /\ ( /\ ret.op = "getScript"
         /\ \A e \in Range(Matching("script")) : {"status", "label"} \subseteq DOMAIN e.attrs ) =>
           /\ ret.outcome = "ok"
           /\ \A i \in 1..Len(Matching("script")) :
                  /\ ret.val.script.repo[i] = Optional(Matching("script")[i], "repo")
                  /\ ret.val.script.dest[i] = Optional(Matching("script")[i], "dest")
    /\ ret.op = "getCompare" =>
           /\ ret.outcome = "ok"
           /\ \A i \in 1..Len(Matching("compare")) :
                  /\ "repo" \notin DOMAIN Matching("compare")[i].attrs =>
                         ret.val.compare.repo[i] = None
                  /\ "dest" \notin DOMAIN Matching("compare")[i].attrs =>
                         ret.val.compare.dest[i] = None

\* What getCompare and getScript do: getScript gives None for a missing
\* repo or dest; getCompare raises KeyError as soon as a compare element
\* lacks repo or dest, and returns otherwise.
RepoDestOptionalForScript ==
    /\ ( /\ ret.op = "getScript"
         /\ \A e \in Range(Matching("script")) : {"status", "label"} \subseteq DOMAIN e.attrs ) =>
           /\ ret.outcome = "ok"
           /\ \A i \in 1..Len(Matching("script")) :
                  /\ ret.val.script.repo[i] = Optional(Matching("script")[i], "repo")
                  /\ ret.val.script.dest[i] = Optional(Matching("script")[i], "dest")
    /\ ret.op = "getCompare" =>
           IF \A e \in Range(Matching("compare")) : {"repo", "dest"} \subseteq DOMAIN e.attrs
           THEN ret.outcome = "ok"
           ELSE ret.outcome = "raise" /\ ret.val.exc = "KeyError"

---------------------------------------------------------------------------
\* C16: getAttribute(node, k, default) returns the value of attribute k
\* whenever node has it, whatever the default; returns the default when k
\* is absent and a default other than None was given; raises when k is
\* absent and the default is None.
C16_GetAttribute ==
    ret.op = "getAttribute" =>
        LET node == ret.arg.node
            k == ret.arg.k
        IN  IF k \in DOMAIN node.attrs
            THEN ret.outcome = "ok" /\ ret.val = PyStr(node.attrs[k])
            ELSE IF ret.arg.default = None
                 THEN ret.outcome = "raise" /\ ret.val = [exc |-> "ValueError"]
                 ELSE ret.outcome = "ok" /\ ret.val = ret.arg.default

\* C16 witness: the attribute is absent and the empty default given is
\* returned.
C16_Witness ==
    /\ ret.op = "getAttribute"
    /\ ret.arg.k \notin DOMAIN ret.arg.node.attrs
    /\ ret.arg.default = PyStr(<<>>)
    /\ ret.outcome = "ok"
    /\ ret.val = PyStr(<<>>)

\* The pieces between the commas of the text inside the parentheses.
Members(n) == Split(Inner(n))

IsNumber(s) == StrToFloat(s).outcome = "ok"

\* A value of the literal form '(a,b,c)': an opening parenthesis, numbers
\* separated by commas, a closing parenthesis.
IsTupleForm(n) ==
    /\ Len(n) >= 2
    /\ n[1] = "("
    /\ n[Len(n)] = ")"
    /\ \A i \in 1..Len(Members(n)) : IsNumber(Members(n)[i])

NumbersOf(n) == [i \in 1..Len(Members(n)) |-> StrToFloat(Members(n)[i]).val]

\* C17 as stated: getAttributeTuple returns the numbers a, b, c for a value
\* of the form '(a,b,c)' and fails with an error for every other value of
\* the attribute.
C17_TupleOrError ==
    (ret.op = "getAttributeTuple" /\ ret.arg.k \in DOMAIN ret.arg.node.attrs) =>
        LET n == ret.arg.node.attrs[ret.arg.k] IN
            IF IsTupleForm(n)
            THEN ret.outcome = "ok" /\ ret.val = PyTuple(NumbersOf(n))
            ELSE ret.outcome = "raise"

\* The half of C17 the code keeps: a value of the form '(a,b,c)' gives its
\* numbers.
TupleFormParsed ==
    (ret.op = "getAttributeTuple" /\ ret.arg.k \in DOMAIN ret.arg.node.attrs) =>
        LET n == ret.arg.node.attrs[ret.arg.k] IN
            IsTupleForm(n) => ret.outcome = "ok" /\ ret.val = PyTuple(NumbersOf(n))

\* The three numbers of '(1,2,3)' are returned.
ThreeNumbersRead ==
    /\ ret.op = "getAttributeTuple"
    /\ ret.outcome = "ok"
    /\ ret.val = PyTuple(<<1, 2, 3>>)
    /\ IsTupleForm(ret.arg.node.attrs.xlim)

---------------------------------------------------------------------------
\* The elements named tag anywhere in the document.
Holds(tag) == getElementsByTagName(DocumentElement, tag)

\* The text of an element: the data of its text children, in order.
RECURSIVE TextOfKids(_)
TextOfKids(ks) ==
    IF ks = <<>> THEN <<>>
    ELSE IF Head(ks).tag = "#text" THEN Head(ks).data \o TextOfKids(Tail(ks))
    ELSE TextOfKids(Tail(ks))

TextOf(e) == TextOfKids(e.kids)

PathTag == IF ret.op = "getRepository" THEN "repository" ELSE "destination"

\* C18 as stated: getRepository and getDestination, when no value was set
\* beforehand, exit if the document holds no repository (destination)
\* element or several, and return the text of the element when there is
\* exactly one.
C18_SingletonOrExit ==
    (ret.op \in {"getRepository", "getDestination"} /\ ret.before = None) =>
        IF Len(Holds(PathTag)) = 1
        THEN ret.outcome = "ok" /\ ret.val = PyStr(TextOf(Holds(PathTag)[1]))
        ELSE ret.outcome = "exit" /\ ret.val = [code |-> 1]

\* What the two methods do when nothing is kept yet: exit exactly when the
\* element is missing or repeated; with one element whose first child is
\* text, return that text; with one empty element, return None; with one
\* element whose first child is a comment, return the comment's data; with
\* one whose first child is an element, raise AttributeError.
SingletonFirstChild ==
    (ret.op \in {"getRepository", "getDestination"} /\ ret.before = None) =>
        LET l == Holds(PathTag) IN
            /\ ret.outcome = "exit" <=> Len(l) # 1
            /\ Len(l) = 1 =>
                   IF l[1].kids = <<>> THEN ret.outcome = "ok" /\ ret.val = None
                   ELSE IF IsElement(l[1].kids[1])
                        THEN ret.outcome = "raise" /\ ret.val = [exc |-> "AttributeError"]
                        ELSE ret.outcome = "ok" /\ ret.val = PyStr(l[1].kids[1].data)

\* The text of the only repository element is returned.
RepositoryTextRead ==
    /\ ret.op = "getRepository"
    /\ ret.before = None
    /\ Len(Holds("repository")) = 1
    /\ ret.outcome = "ok"
    /\ ret.val = PyStr(RepositoryText)

\* The measurement elements of the study asked for.
Measurements == getElementsByTagName(StudyOf(ret.arg.str), "measurement")

\* The directory getMeasurement walks for measurement element m.
WalkedTop(m) ==
    LET base == Join(TextOf(Holds("repository")[1]), ret.arg.str) IN
    IF m.attrs.path = <<>> THEN base ELSE Join(Join(base, POST), m.attrs.path)

\* The positions, in walk order, of the directories holding the file of m.
Hits(m) ==
    LET w == Walk(disk, WalkedTop(m)) IN {i \in 1..Len(w) : m.attrs.file \in w[i].files}

FirstHit(m) ==
    Walk(disk, WalkedTop(m))[CHOOSE i \in Hits(m) : \A j \in Hits(m) : i <= j].root

\* The call getMeasurement(l) the claim is about: l is an enabled study,
\* its measurement elements carry file and path, the document has its one
\* repository element with its text.
MeasurementCall ==
    /\ ret.op = "getMeasurement"
    /\ \E i \in 1..Len(AllStudies) : AllStudies[i].attrs.label = ret.arg.str
    /\ StudyOf(ret.arg.str).attrs.status = On
    /\ \A i \in 1..Len(Measurements) : {"file", "path"} \subseteq DOMAIN Measurements[i].attrs
    /\ Len(Holds("repository")) = 1
    /\ Holds("repository")[1].kids = <<Text(RepositoryText)>>

\* C20: getMeasurement(l) returns one file path per measurement element of
\* study l, in document order and aligned with the returned plot-node
\* lists; the path uses the first directory in walk order that holds a file
\* of the requested name, and when none does it is the path attribute
\* joined with the file name.
C20_MeasurementFiles ==
    MeasurementCall =>
        /\ ret.outcome = "ok"
        /\ Len(ret.val.files) = Len(Measurements)
        /\ Len(ret.val.nodes) = Len(Measurements)
        /\ \A i \in 1..Len(Measurements) :
            LET m == Measurements[i] IN
                /\ ret.val.nodes[i] = getElementsByTagName(m, "plot")
                /\ ret.val.files[i] =
                       IF Hits(m) # {} THEN Join(FirstHit(m), m.attrs.file)
                       ELSE Join(m.attrs.path, m.attrs.file)

\* C20 witness: two measurement elements, the file of one in several
\* directories of the walked tree, the file of the other in none.
C20_Witness ==
    /\ MeasurementCall
    /\ ret.outcome = "ok"
    /\ Len(Measurements) = 2
    /\ \E i \in 1..2 : Cardinality(Hits(Measurements[i])) >= 2
    /\ \E i \in 1..2 : Hits(Measurements[i]) = {}

---------------------------------------------------------------------------
\* The Parser built from the text write() returned.
Rebuilt == ParserInit(ParseText(ret.val.text))

\* The label, run_id, tags, n_procs and expected_time of the records of
\* getStatusOnCasesKeywords(l) on the document under r, or its failure.
KeywordsView(r, l) ==
    LET k == getStatusOnCasesKeywords(r, l).r IN
    IF k.outcome # "ok" THEN k
    ELSE Ok([i \in 1..Len(k.val) |->
                [label |-> k.val[i].label, run_id |-> k.val[i].run_id,
                 tags |-> k.val[i].tags, n_procs |-> k.val[i].n_procs,
                 expected_time |-> k.val[i].expected_time]])

\* The labels of the enabled studies of the original Parser.
EnabledLabels ==
    IF getStudiesLabel(root.node).outcome = "ok"
    THEN Range(getStudiesLabel(root.node).val) ELSE {}

SameResults ==
    /\ Rebuilt.r.outcome = "ok"
    /\ getStudiesLabel(Rebuilt.root.node) = getStudiesLabel(root.node)
    /\ \A l \in EnabledLabels :
        /\ \A attr \in AttrValues :
               getStatusOnCasesLabels(Rebuilt.root.node, l, attr)
                   = getStatusOnCasesLabels(root.node, l, attr)
        /\ KeywordsView(Rebuilt.root.node, l) = KeywordsView(root.node, l)

\* C19 as stated: a Parser built from the text returned by write() of an
\* unmodified Parser gives the same getStudiesLabel and, for every enabled
\* study, the same getStatusOnCasesLabels and the same label, run_id, tags,
\* n_procs and expected_time in the records of getStatusOnCasesKeywords.
C19_RoundTrip == ret.op = "write" => SameResults

\* An attribute value of the document holds a tab or a newline.
RECURSIVE HoldsBlank(_)
HoldsBlank(ks) ==
    \E i \in 1..Len(ks) :
        \/ \E k \in DOMAIN ks[i].attrs : \E j \in 1..Len(ks[i].attrs[k]) :
               ks[i].attrs[k][j] \in {Tab, Newline}
        \/ HoldsBlank(ks[i].kids)

\* What write() keeps: the results are the same whenever no attribute
\* value of the document holds a tab or a newline.
RoundTripWithoutBlanks ==
    (ret.op = "write" /\ ~HoldsBlank(file.dom.kids)) => SameResults

\* A document with an enabled study and an enabled case, a reference in an
\* attribute value, written and read back with the same results.
RoundTripKept ==
    /\ ret.op = "write"
    /\ SameResults
    /\ EnabledLabels # {}
    /\ \E l \in EnabledLabels : KeywordsView(root.node, l).outcome = "ok"
                                /\ Len(KeywordsView(root.node, l).val) >= 1
    /\ \E i \in 1..Len(ret.val.text) : \E k \in DOMAIN ret.val.text[i].attrs :
           Find(ret.val.text[i].attrs[k], "&") >= 0

---------------------------------------------------------------------------
(* The properties of the solid-particle model.                             *)

\* C21: after setCouplingStatus(s) with s 'on' or 'off',
\* getCouplingStatus() returns s.
C21_CouplingStatusRead ==
    (ret.op = "setCouplingStatus" /\ ret.arg.status \in {"on", "off"}) =>
        getCouplingStatus(case, ipp_node).r = Ok([text |-> ret.arg.status])

ModelTags == {"friction", "granular", "kinetic"}

AllowedModels(tag) ==
    CASE tag = "friction" -> FrictionModels
      [] tag = "granular" -> GranularModels
      [] tag = "kinetic" -> KineticModels

\* What the getter of the tag model returns for field f on document c.
ModelRead(tag, c, ipp, f) ==
    CASE tag = "friction" -> getFrictionModel(c, ipp, f).r
      [] tag = "granular" -> getGranularModel(c, ipp, f).r
      [] tag = "kinetic" -> getKineticModel(c, ipp, f).r

ModelSetters ==
    [setFrictionModel |-> "friction", setGranularModel |-> "granular",
     setKineticModel |-> "kinetic"]

\* The last call set a model of a valid field to an allowed model.
ModelWasSet ==
    /\ ret.op \in DOMAIN ModelSetters
    /\ isFieldIdValid(ret.before.case, ret.arg.fieldId)
    /\ ret.arg.model \in AllowedModels(ModelSetters[ret.op])

\* C22: after setFrictionModel(f, m), setGranularModel(f, m) or
\* setKineticModel(f, m) with a valid field f and an allowed model m, the
\* matching getter returns m for f, and the getters return what they
\* returned before for every other field and for the other two models of f.
C22_ModelSetGet ==
    ModelWasSet =>
        /\ ModelRead(ModelSetters[ret.op], case, ipp_node, ret.arg.fieldId) = Ok(ret.arg.model)
        /\ \A tag \in ModelTags, f \in FieldIds :
               (tag # ModelSetters[ret.op] \/ f # ret.arg.fieldId) =>
                   ModelRead(tag, case, ipp_node, f) =
                       ModelRead(tag, ret.before.case, ret.before.ipp_node, f)

\* The granular model of field 1 set to 'pressure' over the default, while
\* the friction model of the field is 'pressure' too and field 2 has the
\* defaults.
ModelSetSeen ==
    /\ ret.op = "setGranularModel"
    /\ ret.arg = [fieldId |-> "1", model |-> "pressure"]
    /\ ModelRead("granular", ret.before.case, ret.before.ipp_node, "1") = Ok("none")
    /\ ModelRead("granular", case, ipp_node, "1") = Ok("pressure")
    /\ ModelRead("friction", case, ipp_node, "1") = Ok("pressure")
    /\ ModelRead("kinetic", case, ipp_node, "1") = Ok("none")
    /\ ModelRead("granular", case, ipp_node, "2") = Ok("none")

ModelGetters ==
    [getFrictionModel |-> "friction", getGranularModel |-> "granular",
     getKineticModel |-> "kinetic"]

\* The element a getter of a number reads, and the default it falls back on.
NumberGetters ==
    [getCompaction |-> [tag |-> "solid_compaction", default |-> defaultValues.compaction],
     getMinFrictionalThreshold |-> [tag |-> "min_frictional_threshold",
                                    default |-> defaultValues.frictional_threshold],
     getElastCoeff |-> [tag |-> "elasticity_coefficient", default |-> defaultValues.elasticity]]

\* The document c holds an element named tag that carries attrs.
Written(c, tag, attrs) == xmlGetNode(c, Ref(<<>>), tag, attrs) # None

\* The last call was a getter of a value the document, as it was when the
\* call started, does not hold (for a model, of a valid field).
GetterOfUnset ==
    \/ /\ ret.op \in DOMAIN ModelGetters
       /\ isFieldIdValid(ret.before.case, ret.arg.fieldId)
       /\ LET field == xmlGetNode(ret.before.case, Ref(<<>>), "field",
                                  [field_id |-> ret.arg.fieldId])
          IN  xmlGetNode(ret.before.case, field, ModelGetters[ret.op], EmptyAttrs) = None
    \/ /\ ret.op \in {"getCompaction", "getMinFrictionalThreshold"}
       /\ ~Written(ret.before.case, NumberGetters[ret.op].tag, EmptyAttrs)
    \/ /\ ret.op = "getElastCoeff"
       /\ ~Written(ret.before.case, "elasticity_coefficient", [field_id |-> ret.arg.f_id])
    \/ /\ ret.op = "getCouplingStatus"
       /\ ~Written(ret.before.case, "polydispersion", EmptyAttrs)

\* The default of defaultValues() the last getter stands for.
DefaultReturned ==
    IF ret.op \in DOMAIN ModelGetters THEN Ok(defaultValues[ModelGetters[ret.op]])
    ELSE IF ret.op \in DOMAIN NumberGetters THEN Ok(NumberGetters[ret.op].default)
    ELSE Ok([text |-> defaultValues.polydispersed])

\* C30: a getter of SolidModel called for a value that was never set
\* returns the default of defaultValues() and leaves the document exactly
\* as it was before the call.
C30_GettersLeaveDocument ==
    GetterOfUnset =>
        /\ [outcome |-> ret.outcome, val |-> ret.val] = DefaultReturned
        /\ case = ret.before.case

\* The part of C30 on the value returned.
GettersReturnDefault ==
    GetterOfUnset => [outcome |-> ret.outcome, val |-> ret.val] = DefaultReturned

\* The part of C30 on the document, for the getters of a number and of the
\* coupling status.
NumberGettersLeaveDocument ==
    (GetterOfUnset /\ ret.op \notin DOMAIN ModelGetters) => case = ret.before.case

---------------------------------------------------------------------------
(* The properties of the cached paths.                                     *)

\* An absolute path in normal form: it starts with a separator, holds no
\* doubled separator below its start, no trailing separator, no '.' or
\* '..' name.
IsNormalAbsolute(path) ==
    /\ path # <<>> /\ Head(path) = "/"
    /\ \A i \in 3..Len(path) : ~(path[i] = "/" /\ path[i - 1] = "/")
    /\ Len(path) > 1 => path[Len(path)] # "/"
    /\ \A i \in 1..Len(Components(path)) : Components(path)[i] # <<".", ".">>
    /\ Len(Components(path)) = Len(ComponentsLoop(path, <<".">>, <<>>))

\* What a step of the Parser does to one cached path, kept in the
\* attribute cache and read by get: set is the setter, tag the element.
CachedPathStep(get, set, tag, cache, cacheAfter) ==
    \* the setter leaves the normalized absolute form of its argument
    /\ ret'.op = set =>
           /\ cacheAfter = PyStr(abspath(expanduser(ret'.arg.str)))
           /\ IsNormalAbsolute(cacheAfter.str)
    \* a path that was set or read is what the getter returns, whatever
    \* the document holds
    /\ (ret'.op = get /\ cache # None) =>
           /\ ret'.outcome = "ok"
           /\ ret'.val = cache
    \* and only the setter replaces it
    /\ (cache # None /\ ret'.op # set) => cacheAfter = cache
    \* the first read returns the data of the document
    /\ (ret'.op = get /\ cache = None /\ ret'.outcome = "ok") =>
           Ok(ret'.val) = getDataFromNode(root.node, tag).r
    \* what a read returned is what the next read returns, even when the
    \* document is changed in between
    /\ (ret.op = get /\ ret.outcome = "ok" /\ ret'.op = "addChild") =>
           CachedData(root'.node, cacheAfter, tag).r = Ok(ret.val)

\* C23: once setRepository(p) has been called every later getRepository
\* returns the normalized absolute form of the most recent p and does not
\* fail, whatever the document holds; before any setRepository the first
\* getRepository reads the document and later calls return that same
\* value even if the document is changed in between. The same holds for
\* setDestination and getDestination.
C23_CachedPaths ==
    [][/\ CachedPathStep("getRepository", "setRepository", "repository", repo, repo')
       /\ CachedPathStep("getDestination", "setDestination", "destination", dest, dest')]_vars

\* What holds of the cached paths: C23 for every read that returned a
\* string.
CachedStringsKept ==
    [][\A p \in {<<"getRepository", "repository", repo'>>,
                 <<"getDestination", "destination", dest'>>} :
          (ret.op = p[1] /\ ret.outcome = "ok" /\ ret.val # None /\ ret'.op = "addChild") =>
              CachedData(root'.node, p[3], p[2]).r = Ok(ret.val)]_vars

---------------------------------------------------------------------------
\* C25: every label returned by getStudiesLabel() is accepted by
\* getStudyNode: for such a label l, getStudyNode(l) returns a study
\* element with label l and status 'on', also when a study with the same
\* label and another status comes earlier in the document.
C25_LabelsAccepted ==
    ( /\ ret.op = "getStudyNode"
      /\ getStudiesLabel(root.node).outcome = "ok"
      /\ InList(ret.arg.str, getStudiesLabel(root.node).val) ) =>
        /\ ret.outcome = "ok"
        /\ ret.val # None
        /\ ret.val.node.attrs.label = ret.arg.str
        /\ ret.val.node.attrs.status = On

\* What holds: a label of getStudiesLabel() is accepted when the first
\* study that carries it is 'on'.
LabelsOfLeadingOnStudyAccepted ==
    ( /\ ret.op = "getStudyNode"
      /\ getStudiesLabel(root.node).outcome = "ok"
      /\ InList(ret.arg.str, getStudiesLabel(root.node).val)
      /\ StudyOf(ret.arg.str).attrs.status = On ) =>
        /\ ret.outcome = "ok"
        /\ ret.val = PyNode(StudyOf(ret.arg.str))

---------------------------------------------------------------------------
\* The child elements of the case c named key, in document order.
ChildrenNamed(c, key) == SelectSeq(c.kids, LAMBDA n : IsElement(n) /\ n.tag = key)

\* The args attributes of the childless ones among them; a child without
\* the attribute counts as an empty args.
ArgsOf(c, key) ==
    LET childless == SelectSeq(ChildrenNamed(c, key), LAMBDA n : n.kids = <<>>)
    IN  [i \in 1..Len(childless) |-> getAttribute(childless[i], "args")]

\* ' '.join(strings)
RECURSIVE JoinSpace(_)
JoinSpace(strings) ==
    IF strings = <<>> THEN <<>>
    ELSE IF Len(strings) = 1 THEN Head(strings)
    ELSE Head(strings) \o Space \o JoinSpace(Tail(strings))

\* C26: in a record of getStatusOnCasesKeywords, each of the keys notebook,
\* parametric and kw_args is None when the case has no child element of
\* that name, and otherwise is the args attributes of the case's childless
\* child elements of that name, in document order, joined by one space.
C26_SetupArgsJoined ==
    CasesKeywordsReturned =>
        \A i \in 1..Len(Records) : \A key \in setup_filter_keys :
            LET c == OnCases(ret.arg.str)[i] IN
            IF ChildrenNamed(c, key) = <<>>
            THEN Records[i][key] = None
            ELSE Records[i][key] = PyStr(JoinSpace(ArgsOf(c, key)))

\* What holds: the keys are None without such a child, and the joined args
\* when every child of that name is childless and all but possibly the
\* last carry a non-empty args.
SetupArgsJoinedWhenGiven ==
    CasesKeywordsReturned =>
        \A i \in 1..Len(Records) : \A key \in setup_filter_keys :
            LET c == OnCases(ret.arg.str)[i] IN
            IF ChildrenNamed(c, key) = <<>>
            THEN Records[i][key] = None
            ELSE ( /\ \A j \in 1..Len(ChildrenNamed(c, key)) : ChildrenNamed(c, key)[j].kids = <<>>
                   /\ \A j \in 1..(Len(ArgsOf(c, key)) - 1) : ArgsOf(c, key)[j] # <<>> ) =>
                     Records[i][key] = PyStr(JoinSpace(ArgsOf(c, key)))

\* A case with two childless notebook children, the first without args.
EmptyArgsFirst ==
    /\ CasesKeywordsReturned
    /\ Len(Records) = 1
    /\ ArgsOf(OnCases(ret.arg.str)[1], "notebook") = <<<<>>, <<"x">>>>
    /\ Records[1].notebook = PyStr(<<"x">>)

---------------------------------------------------------------------------
\* The tree n with every case left with its structural children only.
RECURSIVE Stripped(_)
Stripped(n) ==
    LET kept == IF n.tag = "case"
                THEN SelectSeq(n.kids, LAMBDA k : k.tag \in StructuralTags)
                ELSE n.kids
    IN  [n EXCEPT !.kids = [i \in 1..Len(kept) |-> Stripped(kept[i])]]

\* The keys of a record that come from the attributes of the case.
AttributeKeys == {"label", "run_id", "n_procs", "tags", "depends", "expected_time"}

\* C27: child elements of a case never add a key for compare, prepro,
\* script, data or depends, and whatever child elements the case holds,
\* the record's node, label, run_id, n_procs, tags, depends and
\* expected_time are what the case element itself gives: the values of
\* the same call on the document whose cases have no such children.
C27_ChildrenKeepAttributeKeys ==
    CasesKeywordsReturned =>
        LET bare == getStatusOnCasesKeywords(Stripped(root.node), ret.arg.str).r IN
        /\ bare.outcome = "ok"
        /\ Len(bare.val) = Len(Records)
        /\ \A i \in 1..Len(Records) :
               /\ Records[i].node = PyNode(OnCases(ret.arg.str)[i])
               /\ \A key \in AttributeKeys : Records[i][key] = bare.val[i][key]
               /\ \A t \in StructuralTags \ {"depends"} : t \notin DOMAIN Records[i]

\* What holds: no key is added for a structural tag, and the keys that no
\* child element is named after keep the values of the case element.
UnnamedKeysKept ==
    CasesKeywordsReturned =>
        LET bare == getStatusOnCasesKeywords(Stripped(root.node), ret.arg.str).r IN
        /\ bare.outcome = "ok"
        /\ Len(bare.val) = Len(Records)
        /\ \A i \in 1..Len(Records) :
               /\ \A key \in AttributeKeys :
                      ChildrenNamed(OnCases(ret.arg.str)[i], key) = <<>> =>
                          Records[i][key] = bare.val[i][key]
               /\ \A t \in StructuralTags \ {"depends"} : t \notin DOMAIN Records[i]

---------------------------------------------------------------------------
\* The case_description and the case elements of the study l, in document
\* order.
Descriptions(l) == getElementsByTagName(StudyOf(l), "case_description")
CasesOf(l) == getElementsByTagName(StudyOf(l), "case")

\* The tags of the elements of nodes labelled name, one element after the
\* other.
RECURSIVE TagsUnder(_, _)
TagsUnder(nodes, name) ==
    IF nodes = <<>> THEN <<>>
    ELSE (IF Head(nodes).attrs.label = name THEN TagsOf(Head(nodes)) ELSE <<>>)
         \o TagsUnder(Tail(nodes), name)

\* The places of s where its member shows for the first time.
FirstPlaces(s) == {i \in 1..Len(s) : \A j \in 1..(i - 1) : s[j] # s[i]}

\* C28: in the result of getStudyMetadata(l) no two entries of 'cases'
\* have the same name: a second case_description with a label already seen
\* raises an error, the cases sharing a label are merged into one entry
\* whose tags accumulate in document order, and 'tags::cases' lists every
\* tag of every entry exactly once, in order of first appearance.
C28_MetadataEntries ==
    (ret.op = "getStudyMetadata" /\ ret.arg.str = <<"A">>) =>
        LET l == ret.arg.str
            cases == ret.val.cases
            all == AllCaseTags(cases)
            listed == ret.val.study["tags::cases"].list
        IN  /\ (\E i, j \in 1..Len(Descriptions(l)) :
                   i < j /\ Descriptions(l)[i].attrs.label = Descriptions(l)[j].attrs.label) =>
                   ret.outcome = "raise"
            /\ ret.outcome = "ok" =>
                   /\ \A i, j \in 1..Len(cases) : i < j => cases[i].name # cases[j].name
                   /\ {cases[i].name : i \in 1..Len(cases)} =
                          {n.attrs.label : n \in Range(Descriptions(l)) \cup Range(CasesOf(l))}
                   /\ \A i \in 1..Len(cases) : cases[i].tags = TagsUnder(CasesOf(l), cases[i].name)
                   /\ Len(listed) = Cardinality(FirstPlaces(all))
                   /\ \A k \in 1..Len(listed) : listed[k] = all[Kth(FirstPlaces(all), k)]

\* C28 witness: two cases labelled C were merged into the entry a
\* description opened, the tag 'a' they share is accumulated twice and
\* listed once among three tags of two entries.
C28_Witness ==
    /\ ret.op = "getStudyMetadata"
    /\ ret.outcome = "ok"
    /\ Len(Descriptions(ret.arg.str)) = 1
    /\ Len(CasesOf(ret.arg.str)) = 2
    /\ Len(ret.val.cases) = 1
    /\ ret.val.cases[1].tags = <<<<"a">>, <<"b">>, <<"a">>>>
    /\ ret.val.study["tags::cases"].list = <<<<"a">>, <<"b">>>>

---------------------------------------------------------------------------
(* The properties of the expression editor.                                *)

\* Every block of the interpreter holds the text of the editor and passes
\* the syntax check.
EveryBlockChecked(meg, text) ==
    \A k \in 1..Len(meg.funcs) :
        /\ meg.funcs[k].expression = text \o <<Newline>>
        /\ check_meg_code_syntax(meg, meg.funcs[k].func_type) = 0

\* The check of some block fails for the text.
SomeCheckFails(meg, text) ==
    \E k \in 1..Len(meg.funcs) :
        check_meg_code_syntax(update_block_expression(meg, k, text \o <<Newline>>),
                              meg.funcs[k].func_type) # 0

\* C29: for any sequence of accept and reject actions on an open
\* QMegEditorView, the dialog closes as accepted only when the syntax
\* check of every function block returned 0 for the current text; an
\* accept with a failing check leaves the dialog open with the text
\* unchanged and does not clean the temporary directory; clean_tmp_dir is
\* called exactly once by the time the dialog is closed, by accept or by
\* reject.
C29_AcceptChecksEveryBlock ==
    /\ dialog.result = "accepted" => EveryBlockChecked(meg_to_c, textEditExpression.text)
    /\ (ret.op = "accept" /\ SomeCheckFails(ret.before.meg_to_c, ret.before.textEditExpression.text)) =>
           /\ dialog.open
           /\ textEditExpression = ret.before.textEditExpression
           /\ meg_to_c.cleaned = ret.before.meg_to_c.cleaned
    /\ dialog.open => (meg_to_c.cleaned = 0 /\ dialog.result = "none")
    /\ ~dialog.open => (meg_to_c.cleaned = 1 /\ dialog.result \in {"accepted", "rejected"})

\* C29 witness: after an accept refused for a text of invalid syntax and a
\* change of the text, the dialog was accepted.
C29_Witness ==
    /\ ret.op = "accept"
    /\ dialog.result = "accepted"
    /\ ret.before.dialog.critical
    /\ meg_to_c.cleaned = 1
    /\ ret.before.meg_to_c.funcs[1].expression # meg_to_c.funcs[1].expression

---------------------------------------------------------------------------
\* The queries of the Parser and the setters of its two paths.
QueriesAndSetters ==
    {"getStudiesLabel", "getStudyNode", "getStudyTags", "getStudyKeywords",
     "getStatusOnCasesLabels", "getStatusOnCasesKeywords", "getStudyMetadata",
     "getCompare", "getPrepro", "getScript", "getResult", "getAttribute",
     "setRepository", "setDestination"}

\* C24: no query of the Parser and no call of setRepository or
\* setDestination changes the document: write() returns after the call
\* the text it returned before it, hence the same text after any sequence
\* of them; setRepository does not change what getDestination returns,
\* nor setDestination what getRepository returns.
C24_QueriesKeepDocument ==
    [][ret'.op \in QueriesAndSetters =>
           /\ write(doc'.node) = write(doc.node)
           /\ root' = root
           /\ ret'.op = "setRepository" =>
                  getDestination(root'.node, dest') = getDestination(root.node, dest)
           /\ ret'.op = "setDestination" =>
                  getRepository(root'.node, repo') = getRepository(root.node, repo)]_vars

\* C24 witness: setRepository was called on a Parser whose destination had
\* been set, after which write() gives the text of the file and
\* getDestination the destination set.
C24_Witness ==
    /\ ret.op = "setRepository"
    /\ repo = PyStr(<<"/", "h", "/", "r">>)
    /\ dest = PyStr(<<"/", "w", "/", "r">>)
    /\ getDestination(root.node, dest).r = Ok(dest)
    /\ write(doc.node) = write(file.dom)
    /\ Len(getElementsByTagName(root.node, "destination")) = 1

===========================================================================
